---- MODULE Spec2Model ----
(***************************************************************************)
(* A model of three parts of pycord:                                       *)
(*   - the channel discriminator identify_channel and the Channel          *)
(*     constructor (src/pycord/channel.py),                                *)
(*   - the remote command synchronisation ApplicationCommand.instantiate   *)
(*     (src/pycord/commands/application/command.py),                       *)
(*   - the interaction option decoder ApplicationCommand._process_options  *)
(*     and its caller _invoke (same file).                                 *)
(* Each part has its own specification (SpecChannel, SpecSync,             *)
(* SpecOptions); the variables of the other parts stay at their idle       *)
(* values.                                                                 *)
(***************************************************************************)
EXTENDS Integers, Sequences, FiniteSets, TLC

\* ------------------------------------------------------------------ bounds

\* Channel payload type codes range over 0..MaxTypeCode.
MaxTypeCode == 16

\* instantiate() is called at most MaxCalls times in one run.
MaxCalls == 3

\* At most MaxFaults HTTP calls fail with a transport error in one run.
MaxFaults == 1

\* At most MaxSubs sub-commands are attached to one command.
MaxSubs == 2

\* A received option list holds at most MaxNodes nodes.
MaxNodes == 2

VARIABLES
    \* channel discriminator
    chData,      \* the payload handed to identify_channel, or NoData
    chResult,    \* what identify_channel produced for chData, or NoResult
    \* remote command synchronisation
    update_commands,       \* State.update_commands, the update-policy flag
    guild_id,              \* ApplicationCommand.guild_id of each command (0: global)
    remote,                \* the platform's registered commands, per scope
    application_commands,  \* State.application_commands, the cached global list
    created,               \* ApplicationCommand._created
    cmdId,                 \* ApplicationCommand.id (0: not set)
    pc,                    \* where each command's instantiate() coroutine stands
    fetched,               \* the list instantiate() iterates over
    idx,                   \* position of the iteration (1-based)
    callNo,                \* number of the command's current or last instantiate() call
    calls,                 \* instantiate() calls started so far
    completed,             \* instantiate() calls of each command that returned
    log,                   \* every HTTP call issued so far, in order
    nextId,                \* the platform's next fresh command id
    faults,                \* transport errors so far
    \* option declaration and decoding
    command,     \* the declared ApplicationCommand: _callback, options,
                 \* _options_dict, _subs and _options (the payload)
    heap,        \* the Option objects, by reference (index)
    attach,      \* the last .command(...) decoration: receiver and exception
    inter,       \* the interaction _invoke was last called with
    outcome,     \* what that _invoke did: exception, binding, callbacks called
    sentOptions, \* the options the last create or edit call of instantiate() sent
    \* role connection metadata
    mdData,      \* the payload handed to from_data, or NoMetadata
    mdOut,       \* what to_data(from_data(mdData)) produced, or NoMetadataOut
    \* channel router and the entities' operations
    rtCall,      \* the call in progress or last made: layer, method, arguments
    rtSent,      \* the requests that call handed to the transport, in order
    rtResult,    \* how the call ended: returned value or exception
    \* option declaration from a signature, and autocomplete dispatch
    acCmd,       \* the command _parse_arguments built: signature, options, payload
    acInter,     \* the autocomplete interaction _invoke was last called with
    acOut,        \* what that _invoke did: completer called, string, response
    \* user and message commands
    ctxCmd,      \* the user or message command declared: type, signature, exception
    ctxOut,       \* what _invoke of that command did
    \* two invocations of one command at a time
    pInter,      \* the interaction of each of the two invocations of the command
    pAcc,        \* each invocation's local binding, callbacks called, exception
    pPos,         \* the option each invocation's loop stands at (0: not running)
    \* the response of one interaction
    rsResponded, \* InteractionResponse.responded
    rsPc,        \* where each task's send stands
    rsLog,        \* the requests issued, their answers and the exceptions raised, in order
    \* houses sent with messages
    hsRegistered, \* the houses State.sent_house was called with
    hsCalls      \* the send calls on the channel: houses passed, how each ended

chVars == <<chData, chResult>>
syncVars == <<update_commands, guild_id, remote, application_commands, created,
              cmdId, pc, fetched, idx, callNo, calls, completed, log, nextId,
              faults>>
optVars == <<command, heap, attach, inter, outcome, sentOptions>>
mdVars == <<mdData, mdOut>>
rtVars == <<rtCall, rtSent, rtResult>>
acVars == <<acCmd, acInter, acOut>>
ctxVars == <<ctxCmd, ctxOut>>
pairVars == <<pInter, pAcc, pPos>>
rsVars == <<rsResponded, rsPc, rsLog>>
hsVars == <<hsRegistered, hsCalls>>
vars == <<chVars, syncVars, optVars, mdVars, rtVars, acVars, ctxVars, pairVars, rsVars, hsVars>>

\* What the actions of one part leave alone: the variables of the others.
othersOfChannel == <<syncVars, optVars, mdVars, rtVars, acVars, ctxVars, pairVars, rsVars, hsVars>>
othersOfSync == <<chVars, optVars, mdVars, rtVars, acVars, ctxVars, pairVars, rsVars, hsVars>>
othersOfOptions == <<chVars, syncVars, mdVars, rtVars, acVars, ctxVars, pairVars, rsVars, hsVars>>
othersOfMetadata == <<chVars, syncVars, optVars, rtVars, acVars, ctxVars, pairVars, rsVars, hsVars>>
othersOfRouter == <<chVars, syncVars, optVars, mdVars, acVars, ctxVars, pairVars, rsVars, hsVars>>
othersOfAutocomplete == <<chVars, syncVars, optVars, mdVars, rtVars, ctxVars, pairVars, rsVars, hsVars>>
othersOfContext == <<chVars, syncVars, optVars, mdVars, rtVars, acVars, pairVars, rsVars, hsVars>>
othersOfPair == <<chVars, syncVars, mdVars, rtVars, acVars, ctxVars, rsVars, hsVars>>
othersOfResponse == <<chVars, syncVars, optVars, mdVars, rtVars, acVars, ctxVars, pairVars, hsVars>>
othersOfHouses == <<chVars, syncVars, optVars, mdVars, rtVars, acVars, ctxVars, pairVars, rsVars>>

\* ------------------------------------------------ channel.py: construction

MISSING == "MISSING"
None == "None"

NoData == [type |-> -1, name |-> "absent", flags |-> "absent"]
NoResult == [kind |-> "none", cls |-> "-", type |-> -1, name |-> "-", flags |-> "-"]

\* The three states of an optional payload key: the key is absent, present
\* with null, or present with a value.
NameStates == {"absent", "null", "general"}
FlagStates == {"absent", "null", "pinned"}

TypeCodes == 0..MaxTypeCode

Payloads == [type : TypeCodes, name : NameStates, flags : FlagStates]

\* The members of the ChannelType enumeration (pycord/enums.py).
ChannelTypeValues == {0, 1, 2, 3, 4, 5, 10, 11, 12, 13, 14, 15}

\* dict.get(key, MISSING): the default only when the key is absent.
GetOrMissing(field) ==
    IF field = "absent" THEN MISSING
    ELSE IF field = "null" THEN None
    ELSE field

\* X(data[key]) if data.get(key) is not None else MISSING
ConvertOrMissing(field) ==
    IF field \in {"absent", "null"} THEN MISSING ELSE field

\* Channel.__init__: ChannelType(data['type']) raises ValueError for a value
\* that is no member of the enumeration.
ChannelInit(cls, data) ==
    IF data.type \notin ChannelTypeValues
    THEN [kind |-> "raise", cls |-> "ValueError", type |-> data.type,
          name |-> "-", flags |-> "-"]
    ELSE [kind |-> "ok", cls |-> cls, type |-> data.type,
          name |-> GetOrMissing(data.name),
          flags |-> ConvertOrMissing(data.flags)]

\* identify_channel: the class chosen for each type code.
ChannelClass(type) ==
    IF type = 0 THEN "TextChannel"
    ELSE IF type = 1 THEN "DMChannel"
    ELSE IF type = 2 THEN "VoiceChannel"
    ELSE IF type = 4 THEN "CategoryChannel"
    ELSE IF type = 5 THEN "AnnouncementChannel"
    ELSE IF type = 10 THEN "AnnouncementThread"
    ELSE IF type \in {11, 12} THEN "Thread"
    ELSE IF type = 13 THEN "StageChannel"
    ELSE IF type = 14 THEN "DirectoryChannel"
    ELSE IF type = 15 THEN "ForumChannel"
    ELSE "Channel"

identify_channel(data) == ChannelInit(ChannelClass(data.type), data)

ChIdle ==
    /\ chData = NoData
    /\ chResult = NoResult

\* A payload arrives (from the gateway, a REST response or a resolved map).
ReceiveChannel ==
    /\ chData = NoData
    /\ \E d \in Payloads : chData' = d
    /\ UNCHANGED chResult
    /\ UNCHANGED othersOfChannel

\* identify_channel is applied to the payload.
IdentifyChannel ==
    /\ chData # NoData
    /\ chResult = NoResult
    /\ chResult' = identify_channel(chData)
    /\ UNCHANGED chData
    /\ UNCHANGED othersOfChannel

\* The entity is dropped; the next payload can arrive.
DropChannel ==
    /\ chResult # NoResult
    /\ chData' = NoData
    /\ chResult' = NoResult
    /\ UNCHANGED othersOfChannel

ChNext == ReceiveChannel \/ IdentifyChannel \/ DropChannel

\* ------------------------------------- command.py: instantiate (lines 555-643)

\* The locally declared commands; both are chat-input commands (type 1).
Cmds == {"c1", "c2"}
CmdName(c) == IF c = "c1" THEN "ping" ELSE "pong"
CmdType(c) == 1

\* State._application_command_names: the names of the declared commands.
ApplicationCommandNames == {CmdName(c) : c \in Cmds}

\* Scope 0 is the global command set, scope 1 the one guild of the model.
Scopes == {0, 1}

\* What the platform may hold before the first instantiate(): a same-named
\* command of this type, a same-named command of another type (a user
\* command), and a command no local declaration names.
RemoteUniverse ==
    { [k |-> 1, name |-> "ping", type |-> 1],
      [k |-> 2, name |-> "ping", type |-> 2],
      [k |-> 3, name |-> "old", type |-> 1] }

InitialRemote(S, s) == { [id |-> 3 * s + u.k, name |-> u.name, type |-> u.type] : u \in S }

NoCommand == [id |-> 0, name |-> "-", type |-> 0]

RECURSIVE SortById(_)
\* The platform lists a scope's commands in id order.
SortById(S) ==
    IF S = {} THEN <<>>
    ELSE LET m == CHOOSE x \in S : \A y \in S : x.id <= y.id
         IN <<m>> \o SortById(S \ {m})

Scope(c) == guild_id[c]

\* The element the loop of c looks at.
AppCmd(c) == fetched[c][idx[c]]

\* A variant of IsStale that cleans up only under the update-policy flag.
IsStaleWhenUpdating(a) == a.name \notin ApplicationCommandNames /\ update_commands

\* line 564: app_cmd['name'] not in self._state._application_command_names
IsStale(a) == a.name \notin ApplicationCommandNames

\* lines 570 and 611: app_cmd['name'] == self.name and self._state.update_commands
NameMatches(c, a) == a.name = CmdName(c) /\ update_commands

\* lines 571 and 612: app_cmd['type'] != self.type
TypeDiffers(c, a) == a.type # CmdType(c)

\* lines 595 and 633: if not self._created
NeedsCreate(c) == ~created[c]

\* The platform answers a delete or an edit of a command it does not hold
\* with an error (404).
Known(c, a) == a \in remote[Scope(c)]

\* The platform holds a command of a's name and type in the scope of c.
Held(c, a) == \E r \in remote[Scope(c)] : r.name = a.name /\ r.type = a.type

\* One HTTP call as the log records it: the call, its target, whether the
\* platform answered without an error, and what the platform held when the
\* call was issued.
Call(c, op, a, ok) ==
    [call |-> callNo[c], cmd |-> c, op |-> op, id |-> a.id, name |-> a.name,
     type |-> a.type, ok |-> ok, known |-> Known(c, a), held |-> Held(c, a)]

\* A variant of Raise in which instantiate() swallows the error and returns.
RaiseSwallowed(c, op, a) ==
    /\ \/ /\ faults < MaxFaults
          /\ faults' = faults + 1
       \/ /\ op \in {"delete", "edit"}
          /\ ~Known(c, a)
          /\ UNCHANGED faults
    /\ pc' = [pc EXCEPT ![c] = "done"]
    /\ log' = Append(log, Call(c, op, a, FALSE))
    /\ UNCHANGED <<remote, nextId, idx, fetched, created>>

\* The HTTP call fails (a transport error, or an unknown target): the error
\* propagates out of instantiate().
Raise(c, op, a) ==
    /\ \/ /\ faults < MaxFaults
          /\ faults' = faults + 1
       \/ /\ op \in {"delete", "edit"}
          /\ ~Known(c, a)
          /\ UNCHANGED faults
    /\ pc' = [pc EXCEPT ![c] = "failed"]
    /\ log' = Append(log, Call(c, op, a, FALSE))
    /\ UNCHANGED <<remote, nextId, idx, fetched, created>>

\* instantiate() is called on command c.
Begin(c) ==
    /\ pc[c] \in {"idle", "done", "failed"}
    /\ calls < MaxCalls
    /\ calls' = calls + 1
    /\ callNo' = [callNo EXCEPT ![c] = calls + 1]
    /\ IF guild_id[c] # 0
       THEN /\ pc' = [pc EXCEPT ![c] = "get"]
            /\ UNCHANGED <<fetched, idx>>
       ELSE /\ pc' = [pc EXCEPT ![c] = "gloop"]
            /\ fetched' = [fetched EXCEPT ![c] = application_commands]
            /\ idx' = [idx EXCEPT ![c] = 1]
    /\ UNCHANGED <<update_commands, guild_id, remote, application_commands,
                   created, cmdId, completed, log, nextId, faults>>
    /\ UNCHANGED othersOfSync

\* The calls of one run are made one after the other.
BeginSequential(c) ==
    /\ \A d \in Cmds : pc[d] \in {"idle", "done", "failed"}
    /\ Begin(c)

\* lines 557-561: get_guild_application_commands
GuildGet(c) ==
    /\ pc[c] = "get"
    /\ \/ /\ fetched' = [fetched EXCEPT ![c] = SortById(remote[Scope(c)])]
          /\ idx' = [idx EXCEPT ![c] = 1]
          /\ pc' = [pc EXCEPT ![c] = "loop"]
          /\ log' = Append(log, Call(c, "get", NoCommand, TRUE))
          /\ UNCHANGED <<remote, nextId, faults, created>>
       \/ /\ faults < MaxFaults
          /\ faults' = faults + 1
          /\ pc' = [pc EXCEPT ![c] = "failed"]
          /\ log' = Append(log, Call(c, "get", NoCommand, FALSE))
          /\ UNCHANGED <<remote, nextId, idx, fetched, created>>
    /\ UNCHANGED <<update_commands, guild_id, application_commands, cmdId,
                   callNo, calls, completed>>
    /\ UNCHANGED othersOfSync

\* The delete call answered without an error.
DeleteOk(c, a, nextpc) ==
    /\ Known(c, a)
    /\ remote' = [remote EXCEPT ![Scope(c)] = @ \ {a}]
    /\ log' = Append(log, Call(c, "delete", a, TRUE))
    /\ pc' = [pc EXCEPT ![c] = nextpc]
    /\ UNCHANGED <<nextId, faults, fetched, created>>

\* The edit call answered without an error: the command keeps its id, name
\* and type; self._created = True follows.
EditOk(c, a) ==
    /\ Known(c, a)
    /\ created' = [created EXCEPT ![c] = TRUE]
    /\ log' = Append(log, Call(c, "edit", a, TRUE))
    /\ idx' = [idx EXCEPT ![c] = idx[c] + 1]
    /\ UNCHANGED <<remote, nextId, faults, fetched>>

\* The create call answered without an error: the platform registers a new
\* command under a fresh id; self.id = res['id'] follows.
CreateOk(c) ==
    LET new == [id |-> nextId, name |-> CmdName(c), type |-> CmdType(c)]
    IN /\ remote' = [remote EXCEPT ![Scope(c)] = @ \cup {new}]
       /\ nextId' = nextId + 1
       /\ cmdId' = [cmdId EXCEPT ![c] = nextId]
       /\ log' = Append(log, Call(c, "create", new, TRUE))
       /\ pc' = [pc EXCEPT ![c] = "done"]
       /\ UNCHANGED <<faults, fetched, idx, created>>

\* The loop moves on to the next element without an HTTP call.
Skip(c) ==
    /\ idx' = [idx EXCEPT ![c] = idx[c] + 1]
    /\ UNCHANGED <<remote, log, pc, nextId, faults, fetched, created, cmdId>>

\* lines 563-593: one iteration of the loop over the guild's commands.
GuildLoop(c) ==
    /\ pc[c] = "loop"
    /\ idx[c] <= Len(fetched[c])
    /\ LET a == AppCmd(c)
       IN IF IsStale(a)
          THEN \* lines 564-568
               /\ \/ DeleteOk(c, a, "loop") /\ idx' = [idx EXCEPT ![c] = idx[c] + 1]
                  \/ Raise(c, "delete", a)
               /\ UNCHANGED cmdId
          ELSE IF NameMatches(c, a)
          THEN IF TypeDiffers(c, a)
               THEN Skip(c)
               ELSE IF created[c]
               THEN \* lines 574-578
                    /\ \/ DeleteOk(c, a, "loop") /\ idx' = [idx EXCEPT ![c] = idx[c] + 1]
                       \/ Raise(c, "delete", a)
                    /\ UNCHANGED cmdId
               ELSE \* lines 580-593
                    /\ cmdId' = [cmdId EXCEPT ![c] = a.id]
                    /\ \/ EditOk(c, a) /\ UNCHANGED pc
                       \/ Raise(c, "edit", a)
          ELSE Skip(c)
    /\ UNCHANGED <<update_commands, guild_id, application_commands, callNo, calls,
                   completed>>
    /\ UNCHANGED othersOfSync

\* lines 595-608 and 633-643: after the loop; instantiate() returns.
AfterLoop(c) ==
    /\ pc[c] \in {"loop", "gloop"}
    /\ idx[c] > Len(fetched[c])
    /\ IF NeedsCreate(c)
       THEN \/ /\ CreateOk(c)
               /\ completed' = [completed EXCEPT ![c] = @ + 1]
            \/ /\ Raise(c, "create", [id |-> 0, name |-> CmdName(c), type |-> CmdType(c)])
               /\ UNCHANGED <<cmdId, completed>>
       ELSE /\ pc' = [pc EXCEPT ![c] = "done"]
            /\ completed' = [completed EXCEPT ![c] = @ + 1]
            /\ UNCHANGED <<remote, log, nextId, faults, fetched, idx, created, cmdId>>
    /\ UNCHANGED <<update_commands, guild_id, application_commands, callNo, calls>>
    /\ UNCHANGED othersOfSync

\* lines 610-619: one iteration of the loop over the cached global commands,
\* up to the edit call.
GlobalLoop(c) ==
    /\ pc[c] = "gloop"
    /\ idx[c] <= Len(fetched[c])
    /\ LET a == AppCmd(c)
       IN IF NameMatches(c, a)
          THEN IF TypeDiffers(c, a)
               THEN Skip(c)
               ELSE IF created[c]
               THEN /\ \/ DeleteOk(c, a, "gedit") /\ UNCHANGED idx
                       \/ Raise(c, "delete", a)
                    /\ UNCHANGED cmdId
               ELSE /\ pc' = [pc EXCEPT ![c] = "gedit"]
                    /\ UNCHANGED <<remote, log, nextId, faults, fetched, idx,
                                   created, cmdId>>
          ELSE Skip(c)
    /\ UNCHANGED <<update_commands, guild_id, application_commands, callNo, calls,
                   completed>>
    /\ UNCHANGED othersOfSync

\* lines 620-631: the edit call of the global loop, then self._created = True
\* and self.id = app_cmd['id'].
GlobalEdit(c) ==
    /\ pc[c] = "gedit"
    /\ LET a == AppCmd(c)
       IN \/ /\ EditOk(c, a)
             /\ cmdId' = [cmdId EXCEPT ![c] = a.id]
             /\ pc' = [pc EXCEPT ![c] = "gloop"]
          \/ /\ Raise(c, "edit", a)
             /\ UNCHANGED cmdId
    /\ UNCHANGED <<update_commands, guild_id, application_commands, callNo, calls,
                   completed>>
    /\ UNCHANGED othersOfSync

\* The client reads the global commands into State.application_commands.
FetchGlobal ==
    /\ \A d \in Cmds : pc[d] \in {"idle", "done", "failed"}
    /\ application_commands # SortById(remote[0])
    /\ application_commands' = SortById(remote[0])
    /\ UNCHANGED <<update_commands, guild_id, remote, created, cmdId, pc, fetched,
                   idx, callNo, calls, completed, log, nextId, faults>>
    /\ UNCHANGED othersOfSync

SyncIdle ==
    /\ update_commands = FALSE
    /\ guild_id = [c \in Cmds |-> 0]
    /\ remote = [s \in Scopes |-> {}]
    /\ application_commands = <<>>
    /\ created = [c \in Cmds |-> FALSE]
    /\ cmdId = [c \in Cmds |-> 0]
    /\ pc = [c \in Cmds |-> "idle"]
    /\ fetched = [c \in Cmds |-> <<>>]
    /\ idx = [c \in Cmds |-> 1]
    /\ callNo = [c \in Cmds |-> 0]
    /\ calls = 0
    /\ completed = [c \in Cmds |-> 0]
    /\ log = <<>>
    /\ nextId = 7
    /\ faults = 0

\* After construction (lines 357-399): _created is False; the platform holds
\* any commands of RemoteUniverse, in either scope.
SyncInit ==
    /\ update_commands \in BOOLEAN
    /\ guild_id \in [Cmds -> Scopes]
    /\ \E S \in SUBSET RemoteUniverse :
         /\ remote = [s \in Scopes |-> InitialRemote(S, s)]
         /\ application_commands = SortById(InitialRemote(S, 0))
    /\ created = [c \in Cmds |-> FALSE]
    /\ cmdId = [c \in Cmds |-> 0]
    /\ pc = [c \in Cmds |-> "idle"]
    /\ fetched = [c \in Cmds |-> <<>>]
    /\ idx = [c \in Cmds |-> 1]
    /\ callNo = [c \in Cmds |-> 0]
    /\ calls = 0
    /\ completed = [c \in Cmds |-> 0]
    /\ log = <<>>
    /\ nextId = 7
    /\ faults = 0

SyncNext ==
    \/ \E c \in Cmds : BeginSequential(c)
    \/ \E c \in Cmds : GuildGet(c)
    \/ \E c \in Cmds : GuildLoop(c)
    \/ \E c \in Cmds : GlobalLoop(c)
    \/ \E c \in Cmds : GlobalEdit(c)
    \/ \E c \in Cmds : AfterLoop(c)
    \/ FetchGlobal

\* --------------------- command.py: declaration (lines 146-195, 269-452, 516-553)

EmptyMap == [x \in {} |-> x]

\* A dict assignment d[k] = v.
Put(d, k, v) == [x \in DOMAIN d \cup {k} |-> IF x = k THEN v ELSE d[x]]

Unset == "unset"

\* The callback of the top-level command: its parameters after the
\* interaction, each annotated with an Option. One option takes its name from
\* the parameter, the other is given a name of its own.
MainParams ==
    << [param |-> "text", optname |-> None, pytype |-> "str"],
       [param |-> "target", optname |-> "who", pytype |-> "User"] >>

\* _OPTION_BIND (lines 99-108)
OPTION_BIND(pytype) ==
    CASE pytype = "str" -> 3
      [] pytype = "int" -> 4
      [] pytype = "bool" -> 5
      [] pytype = "float" -> 10
      [] pytype = "User" -> 6
      [] pytype = "Channel" -> 7
      [] pytype = "Role" -> 8
      [] pytype = "Attachment" -> 11

\* _parse_arguments, lines 541-547: the option of one parameter. An Option
\* sets no _callback and no _param of its own (lines 197-202 never run).
ParsedOption(p) ==
    [name |-> IF p.optname = None THEN p.param ELSE p.optname,
     type |-> OPTION_BIND(p.pytype),
     param |-> p.param,
     callback |-> Unset,
     subs |-> EmptyMap,
     options |-> <<>>,
     level |-> 0]

\* The functions given to .command(...), by __name__.
Funcs == {"grp", "Sub"}

\* str.lower() on those names.
Lower(name) == IF name = "Sub" THEN "sub" ELSE name

\* bool(name) of a name argument: None and MISSING are false.
Given(nameArg) == nameArg \notin {None, MISSING}

\* lines 292-299 and 429-436: the Option a .command(...) call creates.
SubOption(nameArg, func, level) ==
    [name |-> IF Given(nameArg) THEN nameArg ELSE Lower(func),
     type |-> 1,
     param |-> Unset,
     callback |-> func,
     subs |-> EmptyMap,
     options |-> <<>>,
     level |-> level]

RECURSIVE to_dict(_, _)
\* Option.to_dict (lines 251-267): type, name and the nested options.
to_dict(h, ref) ==
    [type |-> h[ref].type,
     name |-> h[ref].name,
     options |-> [i \in 1..Len(h[ref].options) |-> to_dict(h, h[ref].options[i])]]

\* ApplicationCommand.__init__ for a chat-input command (lines 374-399) with
\* _parse_arguments (lines 524-553).
DeclaredHeap == [i \in 1..Len(MainParams) |-> ParsedOption(MainParams[i])]

DeclaredCommand ==
    [callback |-> "main",
     options |-> [i \in 1..Len(MainParams) |-> i],
     options_dict |-> [n \in {DeclaredHeap[i].name : i \in 1..Len(MainParams)} |->
                         CHOOSE i \in 1..Len(MainParams) : DeclaredHeap[i].name = n],
     subs |-> EmptyMap,
     payload |-> [i \in 1..Len(MainParams) |-> to_dict(DeclaredHeap, i)]]

NoResolved ==
    [users |-> {}, members |-> {}, roles |-> {}, channels |-> {}, attachments |-> {}]

NoInter == [guild |-> FALSE, resolved |-> NoResolved, options |-> <<>>, sent |-> FALSE]
NoOutcome == [exc |-> "-", binding |-> EmptyMap, events |-> <<>>, returned |-> FALSE]

\* No create or edit call under way.
NoSent == [sent |-> FALSE, options |-> <<>>]

\* No decoration yet; the receiver 0 is the top-level command.
NoAttach == [recv |-> -1, exc |-> "-"]
Attached(recv, exc) == [recv |-> recv, exc |-> exc]

\* The references of the options .command(...) created.
SubRefs == {r \in 1..Len(heap) : heap[r].callback # Unset \/ heap[r].level > 0}

\* ApplicationCommand.command's wrapper (lines 423-450).
AttachCommand(nameArg, func) ==
    /\ inter = NoInter
    /\ sentOptions = NoSent
    /\ Cardinality(SubRefs) < MaxSubs
    /\ LET ref == Len(heap) + 1
           new == SubOption(nameArg, func, 1)
           h2 == Append(heap, new)
           first == command.subs = EmptyMap
           base == IF first
                   THEN [command EXCEPT !.options = <<>>, !.options_dict = EmptyMap,
                                        !.payload = <<>>, !.callback = None]
                   ELSE command
       IN /\ heap' = h2
          /\ command' = [base EXCEPT
                           !.options = Append(@, ref),
                           !.options_dict = Put(@, nameArg, ref),
                           !.payload = Append(@, to_dict(h2, ref)),
                           !.subs = Put(@, nameArg, ref)]
          /\ attach' = Attached(0, "none")
    /\ UNCHANGED <<inter, outcome, sentOptions>>
    /\ UNCHANGED othersOfOptions

\* A variant of TooDeep that refuses a sub-command on every created option.
TooDeepAtOne(o) == heap[o].level >= 1

\* line 301: if self._level == 2
TooDeep(o) == heap[o].level = 2

\* Option.command's wrapper (lines 291-320), on the option at reference o.
AttachOption(o, nameArg, func) ==
    /\ inter = NoInter
    /\ sentOptions = NoSent
    /\ IF TooDeep(o)
       THEN \* lines 301-304: raise ApplicationCommandException
            /\ attach' = Attached(o, "ApplicationCommandException")
            /\ UNCHANGED heap
       ELSE /\ Cardinality(SubRefs) < MaxSubs
            /\ LET ref == Len(heap) + 1
                   new == SubOption(nameArg, func, heap[o].level + 1)
                   first == heap[o].subs = EmptyMap
                   base == IF first
                           THEN [heap[o] EXCEPT !.options = <<>>, !.callback = None]
                           ELSE heap[o]
                   parent == [base EXCEPT
                                !.options = Append(@, ref),
                                !.subs = Put(@, nameArg, ref),
                                !.type = IF @ = 1 THEN 2 ELSE @]
               IN heap' = Append([heap EXCEPT ![o] = parent], new)
            /\ attach' = Attached(o, "none")
    /\ UNCHANGED <<command, inter, outcome, sentOptions>>
    /\ UNCHANGED othersOfOptions

\* ------------------------------ command.py: _process_options (lines 645-720)

Ids == {"e1", "e2"}

\* The resolved maps of an interaction, each by the ids it holds.
ResolvedMaps ==
    [users : {{}, {"e1"}}, members : {{}, {"e1"}}, roles : {{}, {"e1"}, {"e2"}},
     channels : {{}, {"e1"}}, attachments : {{}, {"e1"}}]

FullResolved ==
    [users |-> {"e1"}, members |-> {"e1"}, roles |-> {}, channels |-> {"e1"},
     attachments |-> {"e1"}]

ScalarTypes == {3, 4, 5, 10}
LeafTypes == ScalarTypes \cup {6, 7, 8, 9, 11}

\* A leaf node: a scalar carries its raw value, the others the id they
\* reference.
Leaf(name, type, id) ==
    [name |-> name, type |-> type,
     value |-> IF type \in ScalarTypes THEN "raw" ELSE id,
     options |-> <<>>]

Node(name, type, children) ==
    [name |-> name, type |-> type, value |-> Unset, options |-> children]

\* The lists of at most MaxNodes leaves with distinct names.
LeafLists(names, types) ==
    LET leaves == {Leaf(n, t, id) : n \in names, t \in types, id \in Ids}
    IN UNION { { l \in [1..k -> leaves] :
                   \A i, j \in 1..k : i # j => l[i].name # l[j].name } : k \in 0..MaxNodes }

\* The value a leaf is bound to.
Value(kind, ref, user, guild) == [kind |-> kind, ref |-> ref, user |-> user, guild |-> guild]

Raised(acc, exc) == [acc EXCEPT !.exc = exc]

\* await callback(interaction, **args): None is not callable.
CallBack(acc, cb, args) ==
    IF acc.exc # "none" THEN acc
    ELSE IF cb \in {None, Unset} THEN Raised(acc, "TypeError")
    ELSE [acc EXCEPT !.events = Append(@, [cb |-> cb, args |-> args])]

\* binding[o._param] = value: the value is computed first; an Option that
\* .command(...) created has no _param.
Bind(acc, o, value) ==
    IF o.param = Unset THEN Raised(acc, "AttributeError")
    ELSE [acc EXCEPT !.binding = Put(@, o.param, value)]

\* lines 671-685: a user option; lines 700-713: the same for a mentionable,
\* where Member gets no guild_id.
UserOrMember(I, acc, o, id, withGuild) ==
    IF id \notin I.resolved.users THEN Raised(acc, "KeyError")
    ELSE IF I.guild
    THEN IF id \notin I.resolved.members THEN Raised(acc, "KeyError")
         ELSE Bind(acc, o, Value("Member", id, id, withGuild))
    ELSE Bind(acc, o, Value("User", id, "-", FALSE))

\* A variant of RoleOf that binds None for an id the map lacks (dict.get).
RoleOrNone(I, acc, o, id) ==
    Bind(acc, o, Value("Role", IF id \in I.resolved.roles THEN id ELSE None, "-", FALSE))

\* lines 691-693 and 696-698: Role(resolved['roles'][value])
RoleOf(I, acc, o, id) ==
    IF id \notin I.resolved.roles THEN Raised(acc, "KeyError")
    ELSE Bind(acc, o, Value("Role", id, "-", FALSE))

\* A variant of PrefersRole that looks at resolved.users first.
PrefersRoleUnlessUser(I) == I.resolved.roles # {} /\ I.resolved.users = {}

\* line 695: if interaction.data['resolved'].get('roles')
PrefersRole(I) == I.resolved.roles # {}

\* lines 694-713: a mentionable option.
Mentionable(I, acc, o, id) ==
    IF PrefersRole(I) THEN RoleOf(I, acc, o, id)
    ELSE UserOrMember(I, acc, o, id, FALSE)

\* The channel payload the resolved map holds for an id.
ResolvedChannel(id) == [type |-> 0, name |-> "general", flags |-> "absent"]

\* lines 668-718: the branches of a leaf node.
ProcessLeaf(I, n, o, acc) ==
    CASE n.type \in ScalarTypes -> Bind(acc, o, Value("raw", n.value, "-", FALSE))
      [] n.type = 6 -> UserOrMember(I, acc, o, n.value, TRUE)
      [] n.type = 7 ->
           IF n.value \notin I.resolved.channels THEN Raised(acc, "KeyError")
           ELSE Bind(acc, o, Value(identify_channel(ResolvedChannel(n.value)).cls,
                                   n.value, "-", FALSE))
      [] n.type = 8 -> RoleOf(I, acc, o, n.value)
      [] n.type = 9 -> Mentionable(I, acc, o, n.value)
      [] n.type = 11 ->
           IF n.value \notin I.resolved.attachments THEN Raised(acc, "KeyError")
           ELSE Bind(acc, o, Value("Attachment", n.value, "-", FALSE))
      [] OTHER -> acc

NewAcc(events) == [exc |-> "none", binding |-> EmptyMap, events |-> events, returned |-> FALSE]

RECURSIVE process_options(_, _, _, _)
\* _process_options, the loop from the node list `nodes` on; acc holds the
\* binding so far, the callbacks called so far and the exception raised.
\* self is the top-level command at every depth of the recursion.
process_options(I, nodes, grouped, acc) ==
    IF nodes = <<>> \/ acc.exc # "none" THEN acc
    ELSE
      LET n == Head(nodes)
          step ==
            IF n.name \notin DOMAIN command.options_dict
            THEN Raised(acc, "KeyError")                           \* line 653
            ELSE
              LET o == heap[command.options_dict[n.name]]
              IN IF n.type = 1
                 THEN \* lines 654-662
                   IF n.name \notin DOMAIN command.subs THEN Raised(acc, "KeyError")
                   ELSE
                     LET sub == heap[command.subs[n.name]]
                         r == process_options(I, n.options, FALSE, NewAcc(acc.events))
                         a1 == [acc EXCEPT !.exc = r.exc, !.events = r.events]
                         a2 == IF grouped THEN a1
                               ELSE CallBack(a1, command.callback, EmptyMap)
                     IN CallBack(a2, sub.callback, r.binding)
                 ELSE IF n.type = 2
                 THEN \* lines 663-667
                   LET a1 == CallBack(acc, command.callback, EmptyMap)
                       r == process_options(I, n.options, TRUE, NewAcc(a1.events))
                   IN IF a1.exc # "none" THEN a1
                      ELSE [a1 EXCEPT !.exc = r.exc, !.events = r.events]
                 ELSE ProcessLeaf(I, n, o, acc)
      IN process_options(I, Tail(nodes), grouped, step)

\* _invoke for an application-command interaction naming this chat-input
\* command (lines 746-755).
invoke(I) ==
    LET r == process_options(I, I.options, FALSE, NewAcc(<<>>))
    IN IF r.exc # "none" THEN r
       ELSE IF command.callback # None
       THEN [CallBack(r, command.callback, r.binding) EXCEPT !.returned = TRUE]
       ELSE [r EXCEPT !.returned = TRUE]

\* The names the command's options go by.
OptionNames(refs) == {heap[refs[i]].name : i \in 1..Len(refs)}

\* The option trees the platform may send for the command as declared: a
\* flat list of leaves for a command without sub-commands, else one
\* sub-command node, or one group node holding one sub-command node.
SubParamNames == {"a", "b", "grp"}
SubLeafTypes == {3, 4, 6}

Interactions ==
    IF command.subs = EmptyMap
    THEN { [guild |-> g, resolved |-> res, options |-> l, sent |-> TRUE] :
             g \in BOOLEAN, res \in ResolvedMaps,
             l \in LeafLists(OptionNames(command.options), LeafTypes) }
    ELSE LET leaves == LeafLists(SubParamNames, SubLeafTypes)
             inner == {Node(Lower(f), 1, l) : f \in Funcs, l \in leaves}
             trees == {<<Node(n, 1, l)>> : n \in OptionNames(command.options), l \in leaves}
                      \cup {<<Node(n, 2, <<i>>)>> :
                              n \in OptionNames(command.options), i \in inner}
         IN { [guild |-> g, resolved |-> res, options |-> t, sent |-> TRUE] :
                g \in BOOLEAN, res \in {FullResolved, NoResolved}, t \in trees }

\* An interaction arrives and _invoke runs on it.
Invoke ==
    /\ inter = NoInter
    /\ sentOptions = NoSent
    /\ \E I \in Interactions :
         /\ inter' = I
         /\ outcome' = invoke(I)
    /\ UNCHANGED <<command, heap, attach, sentOptions>>
    /\ UNCHANGED othersOfOptions

\* The event is over; the next interaction can arrive.
Finish ==
    /\ inter # NoInter
    /\ inter' = NoInter
    /\ outcome' = NoOutcome
    /\ UNCHANGED <<command, heap, attach, sentOptions>>
    /\ UNCHANGED othersOfOptions

\* instantiate() issues its create or edit call with options=self._options
\* (lines 582-605, 620-642).
SendOptions ==
    /\ inter = NoInter
    /\ sentOptions = NoSent
    /\ sentOptions' = [sent |-> TRUE, options |-> command.payload]
    /\ UNCHANGED <<command, heap, attach, inter, outcome>>
    /\ UNCHANGED othersOfOptions

\* The call has been answered.
OptionsSent ==
    /\ sentOptions # NoSent
    /\ sentOptions' = NoSent
    /\ UNCHANGED <<command, heap, attach, inter, outcome>>
    /\ UNCHANGED othersOfOptions

OptIdle ==
    /\ command = DeclaredCommand
    /\ heap = DeclaredHeap
    /\ attach = NoAttach
    /\ inter = NoInter
    /\ outcome = NoOutcome
    /\ sentOptions = NoSent

\* ------------------- application_role_connection.py: from_data and to_data

\* Payload type codes range over 0..MaxMetadataType.
MaxMetadataType == 9

\* The members of ApplicationRoleConnectionMetadataType (pycord/enums.py).
MetadataTypeValues == 1..8

LocalizationStates == {"absent", "null", "de"}

MetadataPayloads ==
    [type : 0..MaxMetadataType, key : {"k1", "k2"}, name : {"n1", "n2"},
     description : {"d1"},
     name_localizations : LocalizationStates,
     description_localizations : LocalizationStates]

NoMetadata ==
    [type |-> -1, key |-> "-", name |-> "-", description |-> "-",
     name_localizations |-> "-", description_localizations |-> "-"]

NoMetadataOut == [kind |-> "none", payload |-> NoMetadata]

\* from_data (lines 71-79): the entity's attributes.
from_data(data) ==
    IF data.type \notin MetadataTypeValues
    THEN [kind |-> "raise", exc |-> "ValueError"]
    ELSE [kind |-> "ok",
          type |-> data.type,
          key |-> data.key,
          name |-> data.name,
          description |-> data.description,
          name_localizations |-> GetOrMissing(data.name_localizations),
          description_localizations |-> GetOrMissing(data.description_localizations)]

\* A variant of EmitUnlessMissing that leaves out a null attribute as well.
EmitUnlessNone(attr) == IF attr \in {MISSING, None} THEN "absent" ELSE attr

\* lines 88-91: if self.x is not MISSING: payload["x"] = self.x
EmitUnlessMissing(attr) ==
    IF attr = MISSING THEN "absent"
    ELSE IF attr = None THEN "null"
    ELSE attr

\* to_data (lines 81-92): the payload of an entity.
to_data(e) ==
    [type |-> e.type,
     key |-> e.key,
     name |-> e.name,
     description |-> e.description,
     name_localizations |-> EmitUnlessMissing(e.name_localizations),
     description_localizations |-> EmitUnlessMissing(e.description_localizations)]

MdIdle ==
    /\ mdData = NoMetadata
    /\ mdOut = NoMetadataOut

\* A metadata record arrives.
ReceiveMetadata ==
    /\ mdData = NoMetadata
    /\ \E d \in MetadataPayloads : mdData' = d
    /\ UNCHANGED mdOut
    /\ UNCHANGED othersOfMetadata

\* The record is decoded and encoded again.
RoundTripMetadata ==
    /\ mdData # NoMetadata
    /\ mdOut = NoMetadataOut
    /\ LET e == from_data(mdData)
       IN mdOut' = IF e.kind = "raise"
                   THEN [kind |-> "raise", payload |-> NoMetadata]
                   ELSE [kind |-> "ok", payload |-> to_data(e)]
    /\ UNCHANGED mdData
    /\ UNCHANGED othersOfMetadata

\* The entity is dropped; the next record can arrive.
DropMetadata ==
    /\ mdOut # NoMetadataOut
    /\ mdData' = NoMetadata
    /\ mdOut' = NoMetadataOut
    /\ UNCHANGED othersOfMetadata

MdNext == ReceiveMetadata \/ RoundTripMetadata \/ DropMetadata

\* ------------------------------------- api/routers/channels.py: the requests

\* In one call at most MaxSetArgs optional arguments are given.
MaxSetArgs == 2

\* str(x), as a value of its own.
Str(v) ==
    IF v = MISSING THEN "str(MISSING)"
    ELSE IF v = None THEN "str(None)"
    ELSE "str(v)"

\* The router methods that hand a body to the transport.
BodyMethods ==
    {"modify_channel", "edit_channel_permissions", "create_channel_invite",
     "follow_announcement_channel", "group_dm_add_recipient",
     "start_thread_from_message", "start_thread_without_message",
     "start_thread_in_forum_channel"}

\* The router methods that send a request without a body.
BareMethods ==
    {"delete_channel", "join_thread", "add_thread_member", "leave_thread",
     "remove_thread_member"}

\* The keyword parameters of modify_channel that default to MISSING
\* (lines 54-82).
ModifyChannelParams ==
    {"name", "icon", "archived", "auto_archive_duration", "locked", "invitable",
     "applied_tags", "rate_limit_per_user", "flags", "type", "position", "topic",
     "nsfw", "bitrate", "user_imit", "permission_overwrites", "parent_id",
     "rtc_region", "video_quality_mode", "default_auto_archive_duration",
     "available_tags", "default_reaction_emoji",
     "default_thread_rate_limit_per_user", "default_sort_order",
     "default_forum_layout"}

\* The parameters of each method that default to MISSING.
OptionalParams(m) ==
    CASE m = "modify_channel" -> ModifyChannelParams
      [] m = "edit_channel_permissions" -> {"allow", "deny"}
      [] m = "create_channel_invite" ->
           {"max_age", "max_uses", "temporary", "unique", "target_type",
            "target_user_id", "target_application_id"}
      [] m = "group_dm_add_recipient" -> {"nick"}
      [] m = "start_thread_from_message" ->
           {"auto_archive_duration", "rate_limit_per_user"}
      [] m = "start_thread_without_message" ->
           {"auto_archive_duration", "type", "invitable", "rate_limit_per_user"}
      [] m = "start_thread_in_forum_channel" ->
           {"auto_archive_duration", "rate_limit_per_user", "applied_tags"}
      [] OTHER -> {}

\* The parameters of each method without a default.
RequiredParams(m) ==
    CASE m = "edit_channel_permissions" -> {"type"}
      [] m = "follow_announcement_channel" -> {"webhook_channel_id"}
      [] m = "group_dm_add_recipient" -> {"access_token"}
      [] m = "start_thread_from_message" -> {"name"}
      [] m = "start_thread_without_message" -> {"name"}
      [] m = "start_thread_in_forum_channel" -> {"name", "message"}
      [] OTHER -> {}

\* The key each parameter of modify_channel is sent under (lines 86-111);
\* icon has none.
ModifyChannelKey(p) == IF p = "user_imit" THEN "user_limit" ELSE p

\* The dict `data` each method builds from its arguments a.
BodyData(m, a) ==
    CASE m = "modify_channel" ->
           [k \in {ModifyChannelKey(p) : p \in ModifyChannelParams \ {"icon"}} |->
               a[IF k = "user_limit" THEN "user_imit" ELSE k]]
      [] m = "edit_channel_permissions" ->
           [k \in {"allow", "deny", "type"} |->
               IF k = "type" THEN a[k] ELSE Str(a[k])]
      [] m = "start_thread_in_forum_channel" ->
           [k \in {"name", "auto_archive_duration", "rate_limit_per_user"} |-> a[k]]
      [] OTHER -> a

\* The methods that pass `data` through remove_undefined.
Filtered(m) == m \notin {"follow_announcement_channel", "group_dm_add_recipient"}

\* utils.remove_undefined: the items whose value is not MISSING.
remove_undefined(d) == [k \in {x \in DOMAIN d : d[x] # MISSING} |-> d[k]]

\* The body the method hands to self.request.
Body(m, a) == IF Filtered(m) THEN remove_undefined(BodyData(m, a)) ELSE BodyData(m, a)

RECURSIVE KSubsets(_, _)
\* The subsets of S with at most k elements.
KSubsets(S, k) ==
    IF k = 0 THEN {{}}
    ELSE LET prev == KSubsets(S, k - 1)
         IN prev \cup {T \cup {x} : T \in prev, x \in S}

\* The ways to call with parameters `required` given and at most MaxSetArgs
\* of `optional` given (with null or with a value).
Arguments(required, optional) ==
    UNION { { [p \in required \cup optional |->
                 IF p \in required THEN "v"
                 ELSE IF p \in S THEN g[p] ELSE MISSING] : g \in [S -> {None, "v"}] }
            : S \in KSubsets(optional, MaxSetArgs) }

NoCall == [layer |-> "-", on |-> "-", method |-> "-", args |-> EmptyMap]
NoRtResult == [kind |-> "-", value |-> "-"]

\* One request as the transport sees it.
Request(m, body) == [method |-> m, body |-> body]
NoBody == [k \in {"-"} |-> "-"]

RtIdle ==
    /\ rtCall = NoCall
    /\ rtSent = <<>>
    /\ rtResult = NoRtResult

\* --------------------------------- channel.py: the operations of a channel

\* The variants that define edit, and the variants that are threads or can
\* be sent to.
EditVariants ==
    {"TextChannel", "VoiceChannel", "GroupDMChannel", "CategoryChannel",
     "AnnouncementChannel", "Thread", "AnnouncementThread", "StageChannel",
     "ForumChannel"}
ThreadVariants == {"Thread", "AnnouncementThread"}
MessageableVariants ==
    {"TextChannel", "DMChannel", "VoiceChannel", "GroupDMChannel",
     "AnnouncementChannel", "Thread", "AnnouncementThread", "StageChannel"}
AllVariants == EditVariants \cup {"DMChannel", "DirectoryChannel", "Channel"}

\* The keyword parameters of each variant's edit.
EditParams(v) ==
    CASE v \in {"TextChannel", "AnnouncementChannel"} ->
           {"name", "type", "position", "topic", "nsfw", "rate_limit_per_user",
            "permission_overwrites", "parent_id", "default_auto_archive_duration",
            "default_thread_rate_limit_per_user"}
      [] v \in {"VoiceChannel", "StageChannel"} ->
           {"name", "position", "nsfw", "bitrate", "user_limit",
            "permission_overwrites", "parent_id", "rtc_region", "video_quality_mode"}
      [] v = "GroupDMChannel" -> {"name", "icon"}
      [] v = "CategoryChannel" -> {"name", "position", "permission_overwrites"}
      [] v = "Thread" ->
           {"name", "archived", "auto_archive_duration", "locked", "invitable",
            "rate_limit_per_user", "flags", "applied_tags"}
      [] v = "AnnouncementThread" ->
           {"name", "archived", "auto_archive_duration", "locked",
            "rate_limit_per_user"}
      [] v = "ForumChannel" ->
           {"name", "position", "topic", "nsfw", "rate_limit_per_user",
            "permission_overwrites", "parent_id", "default_auto_archive_duration",
            "flags", "available_tags"}

\* The arguments edit converts with `f(x) if x else MISSING`.
Converted ==
    {"type", "permission_overwrites", "video_quality_mode", "flags",
     "applied_tags", "available_tags"}

\* `f(x) if x else MISSING`: MISSING and None are false.
ConvertIfSet(x) == IF x \in {MISSING, None} THEN MISSING ELSE x

\* The keyword arguments edit passes on to modify_channel.
EditKwargs(v, a) ==
    [p \in EditParams(v) |-> IF p \in Converted THEN ConvertIfSet(a[p]) ELSE a[p]]

\* A call: the requests it sent and how it ended.
Did(requests, kind, value) == [sent |-> requests, kind |-> kind, value |-> value]

\* Python binds keyword arguments by parameter name: modify_channel has no
\* **kwargs, so a keyword that is none of its parameters is a TypeError.
AcceptsKeywords(kwargs) == DOMAIN kwargs \subseteq ModifyChannelParams

\* self._state.http.modify_channel(self.id, **kwargs) (lines 216-218, 540-541)
\* and the instance made from the response.
modify_channel(cls, kwargs) ==
    IF ~AcceptsKeywords(kwargs) THEN Did(<<>>, "raise", "TypeError")
    ELSE LET a == [p \in ModifyChannelParams |->
                     IF p \in DOMAIN kwargs THEN kwargs[p] ELSE MISSING]
         IN Did(<<Request("modify_channel", Body("modify_channel", a))>>, "return", cls)

\* The parameters of MessageableChannel.send (lines 319-332).
SendParams ==
    {"content", "nonce", "tts", "embeds", "allowed_mentions", "message_reference",
     "sticker_ids", "files", "flags", "houses"}

\* send (lines 333-361): more than five houses raise before any request.
send(a) ==
    IF a["houses"] = "six" THEN Did(<<>>, "raise", "ComponentException")
    ELSE Did(<<Request("create_message",
                       [k \in (SendParams \ {"houses"}) \cup {"components"} |->
                          IF k = "components" THEN ConvertIfSet(a["houses"])
                          ELSE IF k \in {"allowed_mentions", "message_reference"}
                          THEN ConvertIfSet(a[k])
                          ELSE a[k]])>>,
             "return", "Message")

\* The operations of a variant besides edit, and the router method each
\* calls (lines 220-228, 629-639).
BareOps(v) ==
    {"delete"} \cup (IF v \in ThreadVariants
                     THEN {"join", "add_member", "leave", "remove_member"} ELSE {})

RouterMethodOf(op) ==
    CASE op = "delete" -> "delete_channel"
      [] op = "join" -> "join_thread"
      [] op = "add_member" -> "add_thread_member"
      [] op = "leave" -> "leave_thread"
      [] op = "remove_member" -> "remove_thread_member"

\* What one operation of a channel of variant v does.
Operate(v, op, a) ==
    CASE op = "edit" -> modify_channel(v, EditKwargs(v, a))
      [] op = "send" -> send(a)
      [] OTHER -> Did(<<Request(RouterMethodOf(op), NoBody)>>, "return", None)

\* An operation is called on a channel entity.
EntityCall ==
    /\ rtCall = NoCall
    /\ \E v \in AllVariants :
         \E op \in BareOps(v) \cup (IF v \in EditVariants THEN {"edit"} ELSE {})
                              \cup (IF v \in MessageableVariants THEN {"send"} ELSE {}) :
            \E a \in (CASE op = "edit" -> Arguments({}, EditParams(v))
                        [] op = "send" ->
                             LET as == Arguments({}, SendParams)
                             IN as \cup {[x EXCEPT !["houses"] = "six"] : x \in as}
                        [] OTHER -> {EmptyMap}) :
               LET d == Operate(v, op, a)
               IN /\ rtCall' = [layer |-> "entity", on |-> v, method |-> op, args |-> a]
                  /\ rtSent' = d.sent
                  /\ rtResult' = [kind |-> d.kind, value |-> d.value]
    /\ UNCHANGED othersOfRouter

\* A router method of Channels is called with some of its arguments given.
RouterCall ==
    /\ rtCall = NoCall
    /\ \E m \in BodyMethods \cup BareMethods :
         \E a \in Arguments(RequiredParams(m), OptionalParams(m)) :
            /\ rtCall' = [layer |-> "router", on |-> "Channels", method |-> m, args |-> a]
            /\ rtSent' = << Request(m, IF m \in BodyMethods THEN Body(m, a) ELSE NoBody) >>
            /\ rtResult' = [kind |-> "return", value |-> "response"]
    /\ UNCHANGED othersOfRouter

\* The call is over; the next one can be made.
RtDone ==
    /\ rtCall # NoCall
    /\ rtCall' = NoCall
    /\ rtSent' = <<>>
    /\ rtResult' = NoRtResult
    /\ UNCHANGED othersOfRouter

RtNext == RouterCall \/ EntityCall \/ RtDone

\* ------------------------------------------------------------ specifications

\* ------- command.py: options of a signature and autocomplete (53-96, 146-195,
\* ------- 516-553, 734-744)

\* The longest choice list registered on one option.
MaxRegistered == 26

\* Strings are sequences of characters; str.lower() works character by
\* character.
LowerChar(ch) == CASE ch = "A" -> "a" [] ch = "B" -> "b" [] OTHER -> ch

LowerStr(s) == [i \in 1..Len(s) |-> LowerChar(s[i])]

\* `t in s` on strings.
Contains(s, t) ==
    \E i \in 0..(Len(s) - Len(t)) : SubSeq(s, i + 1, i + Len(t)) = t

\* The arguments of one CommandChoice(...) call: a name, and a value or none.
ChoiceArgs(name) == [name |-> name, given |-> FALSE, value |-> <<>>]
ChoiceArgsWithValue(name, value) == [name |-> name, given |-> TRUE, value |-> value]

\* CommandChoice.__init__ (lines 78-89): self.value is assigned only when no
\* value was passed; otherwise the instance has no attribute `value`.
CommandChoice(a) ==
    [name |-> a.name,
     hasValue |-> ~a.given,
     value |-> IF a.given THEN <<>> ELSE a.name,
     name_localizations |-> None]

\* CommandChoice._to_dict (lines 91-96), for a choice that has a value.
choice_to_dict(c) ==
    [name |-> c.name, value |-> c.value, name_localizations |-> c.name_localizations]

\* The choice lists registered on an option.
ChoiceLists ==
    { <<>>,
      << ChoiceArgs(<<"A", "b">>), ChoiceArgs(<<"b">>), ChoiceArgs(<<"c">>) >>,
      << ChoiceArgs(<<"b">>), ChoiceArgsWithValue(<<"A", "b">>, <<"b">>) >>,
      [i \in 1..MaxRegistered |-> ChoiceArgs(<<"a">>)] }

\* The `type` argument of Option(...): the default enum member STRING, a
\* plain int, or a Python class.
TypeArgs ==
    { [kind |-> "enum", code |-> 3, cls |-> "-"],
      [kind |-> "int", code |-> 4, cls |-> "-"],
      [kind |-> "class", code |-> 0, cls |-> "bool"] }

\* The declared value types of the parameters.
ValueTypes == {"str", "int"}

\* Option(...) calls: type, choices and autocomplete vary.
OptionArgs ==
    [type : TypeArgs, choices : ChoiceLists, autocomplete : {"True", MISSING}]

\* Option.__init__, lines 164-169.
InitialType(t) ==
    CASE t.kind = "enum" -> t.code
      [] t.kind = "class" -> OPTION_BIND(t.cls)
      [] OTHER -> t.code

\* Option.__init__, lines 176-186: with autocomplete the choices are kept in
\* _choices; without it they are serialized at once, which reads every
\* choice's value.
InitRaises(a) ==
    /\ a.autocomplete # "True"
    /\ \E i \in 1..Len(a.choices) : ~CommandChoice(a.choices[i]).hasValue

\* Option.__init__ (lines 164-195) when it does not raise; _param is set
\* later.
OptionInit(name, a) ==
    [name |-> name,
     param |-> Unset,
     type |-> InitialType(a.type),
     autocomplete |-> a.autocomplete,
     hasChoices |-> a.autocomplete = "True",
     choices |-> IF a.autocomplete = "True"
                 THEN [i \in 1..Len(a.choices) |-> CommandChoice(a.choices[i])]
                 ELSE <<>>]

\* _parse_arguments, lines 541-547, for one annotated parameter.
ParsedFrom(p) ==
    LET option == OptionInit(p.name, p.option)
    IN  [option EXCEPT !.param = p.param,
                       !.type = OPTION_BIND(p.pytype),
                       !.name = IF Given(option.name) THEN option.name ELSE p.param]

\* Option.to_dict (lines 251-267): the items the options here differ in.
OptionPayload(o) == [type |-> o.type, name |-> o.name, autocomplete |-> o.autocomplete]

\* The signature of the callback: two parameters after the interaction, the
\* second one's Option carrying a name of its own.
Signatures ==
    { << [param |-> "first", name |-> None, pytype |-> t1, option |-> o1],
         [param |-> "second", name |-> "two", pytype |-> t2, option |-> o2] >> :
        <<t1, t2, o1, o2>> \in ValueTypes \X ValueTypes \X OptionArgs \X OptionArgs }

NoAcCmd == [exc |-> "-", signature |-> <<>>, options |-> <<>>, payload |-> <<>>]
NoAcInter == [type |-> 0, name |-> "-", options |-> <<>>]
NoAcOut ==
    [exc |-> "-", invoked |-> "-", string |-> <<>>, responded |-> FALSE,
     response |-> <<>>]

\* Declaring the command: the Option(...) calls of the annotations, then
\* ApplicationCommand.__init__ with _parse_arguments (lines 524-553).
parse_arguments(sig) ==
    IF \E i \in 1..Len(sig) : InitRaises(sig[i].option)
    THEN [exc |-> "AttributeError", signature |-> sig, options |-> <<>>,
          payload |-> <<>>]
    ELSE [exc |-> "none", signature |-> sig,
          options |-> [i \in 1..Len(sig) |-> ParsedFrom(sig[i])],
          payload |-> [i \in 1..Len(sig) |-> OptionPayload(ParsedFrom(sig[i]))]]

\* self._options_dict[name] (line 550).
OptionNamed(cmd, name) ==
    cmd.options[CHOOSE i \in 1..Len(cmd.options) : cmd.options[i].name = name]

\* _autocomplete (lines 53-61): the comprehension reads option._choices, then
\* each choice's value in order.
autocomplete(option, string) ==
    IF \/ ~option.hasChoices
       \/ \E i \in 1..Len(option.choices) : ~option.choices[i].hasValue
    THEN [exc |-> "AttributeError", choices |-> <<>>]
    ELSE LET kept == SelectSeq(option.choices,
                       LAMBDA c : Contains(LowerStr(c.value), LowerStr(string)))
         IN  [exc |-> "none",
              choices |-> [i \in 1..Len(kept) |-> choice_to_dict(kept[i])]]

\* InteractionResponse.autocomplete: sends the choices it is given.
respond_autocomplete(choices) == choices

\* _invoke, lines 734-744.
invoke_autocomplete(cmd, I) ==
    IF I.name # "main"
    THEN [NoAcOut EXCEPT !.exc = "none"]
    ELSE LET option == I.options[1]
             real_option == OptionNamed(cmd, option.name)
             got == autocomplete(real_option, option.value)
         IN  IF got.exc # "none"
             THEN [NoAcOut EXCEPT !.exc = got.exc, !.invoked = real_option.name,
                                  !.string = option.value]
             ELSE [exc |-> "none", invoked |-> real_option.name,
                   string |-> option.value, responded |-> TRUE,
                   response |-> respond_autocomplete(got.choices)]

\* What the user has typed into the focused option so far.
PartialInputs == { <<>>, <<"a">>, <<"B">>, <<"a", "b">> }

\* The value of an option the user has finished with.
FullValue == <<"c">>

\* The autocomplete interactions for a command: one or two of its
\* options, in either order, exactly one of them focused.
Entry(name, focused, value) == [name |-> name, focused |-> focused, value |-> value]

AutocompleteInteractions(cmd) ==
    LET names == {cmd.options[i].name : i \in 1..Len(cmd.options)}
        lists ==
            { << Entry(n, TRUE, v) >> : <<n, v>> \in names \X PartialInputs }
            \cup { << Entry(n, TRUE, v), Entry(m, FALSE, FullValue) >> :
                     <<n, m, v>> \in { t \in names \X names \X PartialInputs : t[1] # t[2] } }
            \cup { << Entry(m, FALSE, FullValue), Entry(n, TRUE, v) >> :
                     <<n, m, v>> \in { t \in names \X names \X PartialInputs : t[1] # t[2] } }
    IN  [type : {4}, name : {"main", "other"}, options : lists]

AcIdle ==
    /\ acCmd = NoAcCmd
    /\ acInter = NoAcInter
    /\ acOut = NoAcOut

Declare ==
    /\ acCmd = NoAcCmd
    /\ \E sig \in Signatures : acCmd' = parse_arguments(sig)
    /\ UNCHANGED <<acInter, acOut>>
    /\ UNCHANGED othersOfAutocomplete

Autocomplete ==
    /\ acCmd.exc = "none"
    /\ acInter = NoAcInter
    /\ \E I \in AutocompleteInteractions(acCmd) :
         /\ acInter' = I
         /\ acOut' = invoke_autocomplete(acCmd, I)
    /\ UNCHANGED acCmd
    /\ UNCHANGED othersOfAutocomplete

\* The call is over; the command waits for the next interaction.
AcDone ==
    /\ acInter # NoAcInter
    /\ acInter' = NoAcInter
    /\ acOut' = NoAcOut
    /\ UNCHANGED acCmd
    /\ UNCHANGED othersOfAutocomplete

AcNext ==
    \/ Declare
    \/ Autocomplete
    \/ AcDone

\* ------- command.py: user and message commands (454-514, 756-769)

\* The most parameters a callback declares.
MaxParams == 4

\* The annotations a parameter of a callback may carry; "Union" is
\* Union[User, Member].
Annotations == {"Interaction", "User", "Member", "Union", "Message", "str"}

RECURSIVE SeqsUpTo(_, _)
\* The sequences over S of length at most n.
SeqsUpTo(S, n) ==
    IF n = 0 THEN { <<>> }
    ELSE LET shorter == SeqsUpTo(S, n - 1)
         IN  shorter \cup { Append(q, x) : <<q, x>> \in { t \in shorter \X S : Len(t[1]) = n - 1 } }

\* get_arg_defaults(self._callback): the annotations of all the parameters
\* of the callback, in order, the interaction parameter included.
CallbackSignatures == SeqsUpTo(Annotations, MaxParams)

RECURSIVE user_loop(_, _, _)
\* _parse_user_command_arguments (lines 457-483): the loop from position k
\* on, with i = k - 1 parameters seen, and the check after it. The result is
\* the message of the exception raised, or "none".
user_loop(sig, k, fielded) ==
    IF k > Len(sig)
    THEN IF fielded THEN "none" ELSE "No argument set for a member/user"
    ELSE IF k - 1 = 2
         THEN "User Command has too many arguments, only one is allowed"
         ELSE IF sig[k] \notin {"Member", "User", "Interaction", "Union"}
              THEN "Command argument incorrectly type hinted"
              ELSE user_loop(sig, k + 1, TRUE)

RECURSIVE message_loop(_, _, _)
\* _parse_message_command_arguments (lines 488-514), likewise.
message_loop(sig, k, fielded) ==
    IF k > Len(sig)
    THEN IF fielded THEN "none" ELSE "No argument set for a message and user"
    ELSE IF k - 1 = 3
         THEN "Message Command has too many arguments, only two are allowed"
         ELSE IF sig[k] \notin {"Message", "Interaction", "User", "Member", "Union"}
              THEN "Command argument incorrectly type hinted"
              ELSE message_loop(sig, k + 1, fielded \/ sig[k] # "Interaction")

\* _parse_arguments, lines 517-522, called from __init__ (line 395): a
\* message other than "none" is that of an ApplicationCommandException.
parse_context_arguments(type, sig) ==
    IF type = 2 THEN user_loop(sig, 1, FALSE) ELSE message_loop(sig, 1, FALSE)

\* _invoke, lines 756-769: the number of positional arguments the callback
\* is called with.
ArgumentsPassed(type) == IF type = 2 THEN 2 ELSE 3

\* Calling a callback of n parameters with m positional arguments.
call_callback(n, m) == IF n = m THEN "none" ELSE "TypeError"

NoCtxCmd == [type |-> 0, signature |-> <<>>, exc |-> "-"]
NoCtxOut == [called |-> FALSE, exc |-> "-"]

CtxIdle ==
    /\ ctxCmd = NoCtxCmd
    /\ ctxOut = NoCtxOut

\* ApplicationCommand(callback, state, type=2 or 3).
DeclareContext ==
    /\ ctxCmd = NoCtxCmd
    /\ \E type \in {2, 3} : \E sig \in CallbackSignatures :
         ctxCmd' = [type |-> type, signature |-> sig,
                    exc |-> parse_context_arguments(type, sig)]
    /\ UNCHANGED ctxOut
    /\ UNCHANGED othersOfContext

\* _invoke with an interaction of the command's type naming the command.
InvokeContext ==
    /\ ctxCmd.exc = "none"
    /\ ~ctxOut.called
    /\ ctxOut' = [called |-> TRUE,
                  exc |-> call_callback(Len(ctxCmd.signature), ArgumentsPassed(ctxCmd.type))]
    /\ UNCHANGED ctxCmd
    /\ UNCHANGED othersOfContext

\* The call is over.
ContextDone ==
    /\ ctxOut.called
    /\ ctxOut' = NoCtxOut
    /\ UNCHANGED ctxCmd
    /\ UNCHANGED othersOfContext

CtxNext ==
    \/ DeclareContext
    \/ InvokeContext
    \/ ContextDone

\* ------- command.py: two invocations of one command (243-249, 645-720, 728-755)

\* The invocations running at the same time.
Invocations == {1, 2}

\* The text values the interactions carry.
Texts == {"x", "y"}

\* A scalar node with a value of its own.
Scalar(name, type, value) == [name |-> name, type |-> type, value |-> value, options |-> <<>>]

\* The interactions sent for the command as declared (MainParams): the text
\* option alone, or the text and the user option in either order, the
\* resolved maps holding the user the interaction names.
PairInteractions ==
    { [guild |-> g,
       resolved |-> [NoResolved EXCEPT !.users = {id}, !.members = {id}],
       options |-> l, sent |-> TRUE] :
        <<g, id, l>> \in
          { t \in BOOLEAN \X Ids \X
                  UNION { { << Scalar("text", 3, v) >>,
                            << Scalar("text", 3, v), Leaf("who", 6, i) >>,
                            << Leaf("who", 6, i), Scalar("text", 3, v) >> } :
                          <<v, i>> \in Texts \X Ids } :
              \A k \in 1..Len(t[3]) : t[3][k].type = 6 => t[3][k].value = t[2] } }

\* A variant of inter_copy that stores the received value on the declared
\* option itself.
inter_assign(h, ref, n) ==
    [heap |-> [h EXCEPT ![ref] = [name |-> h[ref].name, type |-> h[ref].type,
                                  param |-> h[ref].param, value |-> n.value]],
     value |-> n.value]

\* Option._inter_copy (lines 243-249): copy(self) takes the received value;
\* the declared option stays as it is.
inter_copy(h, ref, n) == [heap |-> h, value |-> n.value]

NoPairAcc == [exc |-> "-", binding |-> EmptyMap, events |-> <<>>, returned |-> FALSE]

PairIdle ==
    /\ pInter = [k \in Invocations |-> NoInter]
    /\ pAcc = [k \in Invocations |-> NoPairAcc]
    /\ pPos = [k \in Invocations |-> 0]

\* _invoke is called with an interaction while the other invocation, of
\* another interaction, may be under way (lines 728-752).
PairArrive(k) ==
    /\ inter = NoInter
    /\ pPos[k] = 0
    /\ \E I \in PairInteractions :
         /\ \A j \in Invocations : pInter[j] # I
         /\ pInter' = [pInter EXCEPT ![k] = I]
    /\ pAcc' = [pAcc EXCEPT ![k] = NewAcc(<<>>)]
    /\ pPos' = [pPos EXCEPT ![k] = 1]
    /\ UNCHANGED optVars
    /\ UNCHANGED othersOfPair

\* One iteration of the loop of _process_options (lines 652-718) in
\* invocation k; binding is local to the call.
PairBind(k) ==
    /\ pPos[k] \in 1..Len(pInter[k].options)
    /\ pAcc[k].exc = "none"
    /\ LET n == pInter[k].options[pPos[k]]
       IN IF n.name \notin DOMAIN command.options_dict
          THEN /\ pAcc' = [pAcc EXCEPT ![k] = Raised(@, "KeyError")]
               /\ UNCHANGED heap
          ELSE LET ref == command.options_dict[n.name]
               IN /\ heap' = IF n.type \in ScalarTypes
                             THEN inter_copy(heap, ref, n).heap ELSE heap
                  /\ pAcc' = [pAcc EXCEPT ![k] = ProcessLeaf(pInter[k], n, heap[ref], @)]
    /\ pPos' = [pPos EXCEPT ![k] = @ + 1]
    /\ UNCHANGED <<pInter, command, attach, inter, outcome, sentOptions>>
    /\ UNCHANGED othersOfPair

\* After the loop: await self._callback(interaction, **binding)
\* (lines 754-755), or the exception leaves _invoke.
PairCall(k) ==
    /\ pPos[k] > 0
    /\ pPos[k] > Len(pInter[k].options) \/ pAcc[k].exc # "none"
    /\ ~pAcc[k].returned
    /\ pAcc' = [pAcc EXCEPT ![k] =
                  IF @.exc # "none" THEN [@ EXCEPT !.returned = TRUE]
                  ELSE [CallBack(@, command.callback, @.binding) EXCEPT !.returned = TRUE]]
    /\ UNCHANGED <<pInter, pPos>>
    /\ UNCHANGED optVars
    /\ UNCHANGED othersOfPair

\* The invocation is over.
PairFinish(k) ==
    /\ pAcc[k].returned
    /\ pInter' = [pInter EXCEPT ![k] = NoInter]
    /\ pAcc' = [pAcc EXCEPT ![k] = NoPairAcc]
    /\ pPos' = [pPos EXCEPT ![k] = 0]
    /\ UNCHANGED optVars
    /\ UNCHANGED othersOfPair

PairNext ==
    \/ \E k \in Invocations : PairArrive(k)
    \/ \E k \in Invocations : PairBind(k)
    \/ \E k \in Invocations : PairCall(k)
    \/ \E k \in Invocations : PairFinish(k)

\* ------- interaction.py: InteractionResponse.send (lines 66-86)

\* The send calls made on one response, over all tasks.
MaxSends == 3

\* The tasks that may call send on the response.
Tasks == {1, 2}

\* One event of a send: the request issued, its answer, or the exception.
Event(k, ev) == [task |-> k, ev |-> ev]

\* InteractionResponse.__init__ (lines 67-69): responded is False.
RsIdle ==
    /\ rsResponded = FALSE
    /\ rsPc = [k \in Tasks |-> "idle"]
    /\ rsLog = <<>>

\* The sends begun so far.
Begun == Cardinality({i \in 1..Len(rsLog) : rsLog[i].ev \in {"request", "raise"}})

\* A variant of AlreadyResponded that never refuses.
NeverRefuses == FALSE

\* line 78: if self.responded
AlreadyResponded == rsResponded

\* send, lines 78-85: the check, then the create_interaction_response
\* request is issued and the task suspends until it is answered.
SendBegin(k) ==
    /\ rsPc[k] # "awaiting"
    /\ Begun < MaxSends
    /\ IF AlreadyResponded
       THEN /\ rsPc' = [rsPc EXCEPT ![k] = "raised"]
            /\ rsLog' = Append(rsLog, Event(k, "raise"))
       ELSE /\ rsPc' = [rsPc EXCEPT ![k] = "awaiting"]
            /\ rsLog' = Append(rsLog, Event(k, "request"))
    /\ UNCHANGED rsResponded
    /\ UNCHANGED othersOfResponse

\* The request is answered: line 86, self.responded = True.
SendOk(k) ==
    /\ rsPc[k] = "awaiting"
    /\ rsResponded' = TRUE
    /\ rsPc' = [rsPc EXCEPT ![k] = "returned"]
    /\ rsLog' = Append(rsLog, Event(k, "ok"))
    /\ UNCHANGED othersOfResponse

\* The request fails: the error leaves send before line 86.
SendFail(k) ==
    /\ rsPc[k] = "awaiting"
    /\ rsPc' = [rsPc EXCEPT ![k] = "failed"]
    /\ rsLog' = Append(rsLog, Event(k, "fail"))
    /\ UNCHANGED rsResponded
    /\ UNCHANGED othersOfResponse

RsNext ==
    \/ \E k \in Tasks : SendBegin(k)
    \/ \E k \in Tasks : SendOk(k)
    \/ \E k \in Tasks : SendFail(k)

\* ------- channel.py: MessageableChannel.send and the houses (lines 333-361)

\* The most houses one send is given.
MaxHouses == 6

\* The send calls made on the channel.
MaxHouseSends == 2

\* The houses passed to the send numbered c, n of them.
HousesOf(c, n) == {<<c, i>> : i \in 1..n}

\* State.sent_house(house) for each of the houses (lines 339-340).
sent_houses(registered, houses) == registered \cup houses

HsIdle ==
    /\ hsRegistered = {}
    /\ hsCalls = <<>>

\* send up to the create_message request (lines 333-360): more than five
\* houses raise; otherwise the houses are handed to the state and the
\* request is issued.
HouseSend ==
    /\ Len(hsCalls) < MaxHouseSends
    /\ \A c \in 1..Len(hsCalls) : hsCalls[c].result # "awaiting"
    /\ \E n \in 0..MaxHouses :
         LET c == Len(hsCalls) + 1
         IN IF n > 0 /\ n > 5
            THEN /\ hsCalls' = Append(hsCalls, [houses |-> n, result |-> "ComponentException"])
                 /\ UNCHANGED hsRegistered
            ELSE /\ hsCalls' = Append(hsCalls, [houses |-> n, result |-> "awaiting"])
                 /\ hsRegistered' = IF n > 0 THEN sent_houses(hsRegistered, HousesOf(c, n))
                                    ELSE hsRegistered
    /\ UNCHANGED othersOfHouses

\* create_message is answered: line 361, return Message(data, ...).
HouseSendOk ==
    /\ Len(hsCalls) > 0
    /\ hsCalls[Len(hsCalls)].result = "awaiting"
    /\ hsCalls' = [hsCalls EXCEPT ![Len(hsCalls)].result = "Message"]
    /\ UNCHANGED hsRegistered
    /\ UNCHANGED othersOfHouses

\* create_message fails: the error leaves send.
HouseSendFail ==
    /\ Len(hsCalls) > 0
    /\ hsCalls[Len(hsCalls)].result = "awaiting"
    /\ hsCalls' = [hsCalls EXCEPT ![Len(hsCalls)].result = "HTTPException"]
    /\ UNCHANGED hsRegistered
    /\ UNCHANGED othersOfHouses

HsNext ==
    \/ HouseSend
    \/ HouseSendOk
    \/ HouseSendFail

InitChannel == ChIdle /\ SyncIdle /\ OptIdle /\ MdIdle /\ RtIdle /\ AcIdle /\ CtxIdle /\ PairIdle /\ RsIdle /\ HsIdle

SpecChannel == InitChannel /\ [][ChNext]_vars

InitSync == ChIdle /\ SyncInit /\ OptIdle /\ MdIdle /\ RtIdle /\ AcIdle /\ CtxIdle /\ PairIdle /\ RsIdle /\ HsIdle

SpecSync == InitSync /\ [][SyncNext]_vars

\* instantiate() of the two commands run as concurrent tasks: a call may
\* begin while the other is suspended at one of its HTTP calls.
ConcurrentNext ==
    \/ \E c \in Cmds : Begin(c)
    \/ \E c \in Cmds : GuildGet(c)
    \/ \E c \in Cmds : GuildLoop(c)
    \/ \E c \in Cmds : GlobalLoop(c)
    \/ \E c \in Cmds : GlobalEdit(c)
    \/ \E c \in Cmds : AfterLoop(c)
    \/ FetchGlobal

InitConcurrent == ChIdle /\ SyncInit /\ OptIdle /\ MdIdle /\ RtIdle /\ AcIdle /\ CtxIdle /\ PairIdle /\ RsIdle /\ HsIdle

SpecConcurrent == InitConcurrent /\ [][ConcurrentNext]_vars

OptNext ==
    \/ \E f \in Funcs : \E nameArg \in {MISSING, Lower(f)} : AttachCommand(nameArg, f)
    \/ \E o \in SubRefs : \E f \in Funcs : \E nameArg \in {None, Lower(f)} :
         AttachOption(o, nameArg, f)
    \/ Invoke
    \/ Finish
    \/ SendOptions
    \/ OptionsSent

InitOptions == ChIdle /\ SyncIdle /\ OptIdle /\ MdIdle /\ RtIdle /\ AcIdle /\ CtxIdle /\ PairIdle /\ RsIdle /\ HsIdle

InitMetadata == ChIdle /\ SyncIdle /\ OptIdle /\ MdIdle /\ RtIdle /\ AcIdle /\ CtxIdle /\ PairIdle /\ RsIdle /\ HsIdle

SpecMetadata == InitMetadata /\ [][MdNext]_vars

InitRouter == ChIdle /\ SyncIdle /\ OptIdle /\ MdIdle /\ RtIdle /\ AcIdle /\ CtxIdle /\ PairIdle /\ RsIdle /\ HsIdle

SpecRouter == InitRouter /\ [][RtNext]_vars

SpecOptions == InitOptions /\ [][OptNext]_vars

InitAutocomplete == ChIdle /\ SyncIdle /\ OptIdle /\ MdIdle /\ RtIdle /\ AcIdle /\ CtxIdle /\ PairIdle /\ RsIdle /\ HsIdle

SpecAutocomplete == InitAutocomplete /\ [][AcNext]_vars

InitContext == ChIdle /\ SyncIdle /\ OptIdle /\ MdIdle /\ RtIdle /\ AcIdle /\ CtxIdle /\ PairIdle /\ RsIdle /\ HsIdle

SpecContext == InitContext /\ [][CtxNext]_vars

InitPair == ChIdle /\ SyncIdle /\ OptIdle /\ MdIdle /\ RtIdle /\ AcIdle /\ CtxIdle /\ PairIdle /\ RsIdle /\ HsIdle

SpecPair == InitPair /\ [][PairNext]_vars

InitResponse == ChIdle /\ SyncIdle /\ OptIdle /\ MdIdle /\ RtIdle /\ AcIdle /\ CtxIdle /\ PairIdle /\ RsIdle /\ HsIdle

SpecResponse == InitResponse /\ [][RsNext]_vars

InitHouses == ChIdle /\ SyncIdle /\ OptIdle /\ MdIdle /\ RtIdle /\ AcIdle /\ CtxIdle /\ PairIdle /\ RsIdle /\ HsIdle

SpecHouses == InitHouses /\ [][HsNext]_vars

\* ------------------------------------------------------------------ claims

\* The variant the documentation gives for each defined type code.
DocumentedCodes == {0, 1, 2, 3, 4, 5, 10, 11, 12, 13, 14, 15}

DocumentedClass(type) ==
    CASE type = 0 -> "TextChannel"
      [] type = 1 -> "DMChannel"
      [] type = 2 -> "VoiceChannel"
      [] type = 3 -> "GroupDMChannel"
      [] type = 4 -> "CategoryChannel"
      [] type = 5 -> "AnnouncementChannel"
      [] type = 10 -> "AnnouncementThread"
      [] type \in {11, 12} -> "Thread"
      [] type = 13 -> "StageChannel"
      [] type = 14 -> "DirectoryChannel"
      [] type = 15 -> "ForumChannel"

Identified == chResult # NoResult

\* C1: for every defined type code identify_channel returns an instance of
\* the documented variant (3 -> GroupDMChannel among them), one variant per
\* code.
C1_DocumentedVariant ==
    (Identified /\ chData.type \in DocumentedCodes)
        => (chResult.kind = "ok" /\ chResult.cls = DocumentedClass(chData.type))

\* C2: for every type code outside the defined ones identify_channel returns
\* a base Channel and raises nothing, the Channel constructor included.
C2_UnknownFallsBack ==
    (Identified /\ chData.type \notin DocumentedCodes)
        => (chResult.kind = "ok" /\ chResult.cls = "Channel")

\* The remote commands of c's scope that carry c's name and type.
Registered(c) ==
    {r \in remote[Scope(c)] : r.name = CmdName(c) /\ r.type = CmdType(c)}

NoCallFailed == \A i \in 1..Len(log) : log[i].ok

\* C3: after n >= 2 sequential instantiate() calls of a command with the
\* update-policy flag enabled, and no call failed, the remote set holds
\* exactly one command of its name and type.
C3_ExactlyOneAfterRepeat ==
    \A c \in Cmds :
        (update_commands /\ NoCallFailed /\ pc[c] = "done" /\ completed[c] >= 2)
            => Cardinality(Registered(c)) = 1

\* The list the current (or last) instantiate() of c scanned holds a command
\* of c's name and type.
ScanFoundMatch(c) ==
    \E k \in 1..Len(fetched[c]) :
        fetched[c][k].name = CmdName(c) /\ fetched[c][k].type = CmdType(c)

\* C4: a create call is issued only if the scan found no remote command of
\* this name and type; none is issued while the platform holds such a
\* command, on the first call as on every later one.
C4_CreateOnlyWithoutMatch ==
    \A i \in 1..Len(log) :
        log[i].op = "create"
            => /\ ~log[i].held
               /\ (log[i].call = callNo[log[i].cmd] => ~ScanFoundMatch(log[i].cmd))

\* The HTTP calls of the current (or last) instantiate() of c.
CallsOf(c) == {i \in 1..Len(log) : log[i].cmd = c /\ log[i].call = callNo[c]}

\* C5: when a guild-scoped instantiate() has returned without an error, a
\* delete call was issued for every fetched command whose name is not in the
\* declared command names, whatever the update-policy flag.
C5_StaleDeleted ==
    \A c \in Cmds :
        (guild_id[c] # 0 /\ pc[c] = "done")
            => \A k \in 1..Len(fetched[c]) :
                 fetched[c][k].name \notin ApplicationCommandNames
                     => \E i \in CallsOf(c) :
                          /\ log[i].op = "delete"
                          /\ log[i].id = fetched[c][k].id
                          /\ log[i].ok

\* C5 happens: a guild-scoped call returned, with the flag disabled, after
\* fetching a command no declaration names.
C5_Witness ==
    \E c \in Cmds :
        /\ guild_id[c] # 0 /\ pc[c] = "done" /\ ~update_commands
        /\ \E k \in 1..Len(fetched[c]) : fetched[c][k].name \notin ApplicationCommandNames

\* The names the local declarations carry.
LocalNames == {CmdName(c) : c \in Cmds}

\* C6: no delete call is ever issued for a command whose name is declared
\* locally; an edit call is issued only for a command of this command's name
\* and type, with the flag enabled; a same-named command of another type, and
\* every declared-name command while the flag is disabled, gets no call.
C6_OnlyMatchTouched ==
    \A i \in 1..Len(log) :
        /\ log[i].op = "delete" => log[i].name \notin LocalNames
        /\ log[i].op = "edit"
             => /\ log[i].name = CmdName(log[i].cmd)
                /\ log[i].type = CmdType(log[i].cmd)
                /\ update_commands
        /\ (log[i].op \in {"delete", "edit"} /\ log[i].name \in LocalNames)
             => (update_commands /\ log[i].type = CmdType(log[i].cmd))

\* The command was declared with sub-commands or not.
FlatDeclared == command.subs = EmptyMap

Nodes == {inter.options[k] : k \in 1..Len(inter.options)}

\* How often a callback was called.
Times(cb) == Cardinality({i \in 1..Len(outcome.events) : outcome.events[i].cb = cb})

\* One group "grp" holding one sub-command "sub", both attached by name.
GroupDeclared ==
    /\ DOMAIN command.subs = {"grp"}
    /\ LET g == heap[command.subs["grp"]]
       IN /\ g.type = 2
          /\ DOMAIN g.subs = {"sub"}
          /\ Len(g.options) = 1
          /\ heap[g.subs["sub"]].callback = "Sub"

GroupTree ==
    << Node("grp", 2, << Node("sub", 1, << Leaf("a", 3, "e1"), Leaf("b", 4, "e1") >>) >>) >>

RawValue == Value("raw", "raw", "-", FALSE)

\* C7: for a group holding a sub-command with two scalar options, and an
\* option tree selecting group, sub-command and both values, the group
\* callback is called exactly once, the sub-command callback exactly once,
\* with exactly the two values under their parameter names.
C7_GroupDispatch ==
    (inter.sent /\ GroupDeclared /\ inter.options = GroupTree)
        => /\ outcome.exc = "none"
           /\ Times("grp") = 1
           /\ Times("Sub") = 1
           /\ \A i \in 1..Len(outcome.events) :
                outcome.events[i].cb = "Sub"
                    => /\ DOMAIN outcome.events[i].args = {"a", "b"}
                       /\ \A x \in {"a", "b"} : outcome.events[i].args[x] = RawValue

\* The parameter the top-level callback declares for an option name.
ParamOf(name) ==
    LET i == CHOOSE j \in 1..Len(MainParams) :
                 name = (IF MainParams[j].optname = None THEN MainParams[j].param
                         ELSE MainParams[j].optname)
    IN MainParams[i].param

\* The interaction carries the entity a node references.
UserPresent(I, id) == id \in I.resolved.users /\ (I.guild => id \in I.resolved.members)

DataPresent(I, n) ==
    CASE n.type = 6 -> UserPresent(I, n.value)
      [] n.type = 7 -> n.value \in I.resolved.channels
      [] n.type = 8 -> n.value \in I.resolved.roles
      [] n.type = 9 -> n.value \in I.resolved.roles \/ UserPresent(I, n.value)
      [] n.type = 11 -> n.value \in I.resolved.attachments
      [] OTHER -> TRUE

\* The resolved maps hold nothing but what the option nodes reference.
Referenced(types) == {n.value : n \in {m \in Nodes : m.type \in types}}

OnlyReferenced ==
    /\ inter.resolved.users \subseteq Referenced({6, 9})
    /\ inter.resolved.members \subseteq Referenced({6, 9})
    /\ inter.resolved.roles \subseteq Referenced({8, 9})
    /\ inter.resolved.channels \subseteq Referenced({7})
    /\ inter.resolved.attachments \subseteq Referenced({11})

\* C8: for a flat list of leaf nodes with distinct declared names, each with
\* its resolved data present, _process_options returns a mapping with exactly
\* one entry per node, under the option's parameter name, a scalar valued
\* with the node's raw value. (Stated for interactions whose resolved maps
\* hold only what the nodes reference.)
C8_FlatBinding ==
    (inter.sent /\ FlatDeclared /\ OnlyReferenced
       /\ \A n \in Nodes : DataPresent(inter, n))
        => /\ outcome.exc = "none"
           /\ outcome.returned
           /\ DOMAIN outcome.binding = {ParamOf(n.name) : n \in Nodes}
           /\ \A n \in Nodes :
                n.type \in ScalarTypes
                    => /\ outcome.binding[ParamOf(n.name)].kind = "raw"
                       /\ outcome.binding[ParamOf(n.name)].ref = n.value

\* A flat list whose one non-scalar node is the mentionable n.
OnlyMentionable(n) ==
    /\ inter.sent /\ FlatDeclared
    /\ n \in Nodes /\ n.type = 9
    /\ \A m \in Nodes \ {n} : m.type \in ScalarTypes

BoundTo(n, v) ==
    /\ outcome.exc = "none"
    /\ ParamOf(n.name) \in DOMAIN outcome.binding
    /\ outcome.binding[ParamOf(n.name)] = v

\* C9: a mentionable node takes the role branch when resolved.roles is not
\* empty, also when resolved.users holds the same id; with resolved.roles
\* absent or empty it takes the user branch: the member with the user
\* attached inside a guild, the bare user outside.
C9_MentionableBranch ==
    \A n \in Nodes :
        OnlyMentionable(n)
            => IF inter.resolved.roles # {}
               THEN IF n.value \in inter.resolved.roles
                    THEN BoundTo(n, Value("Role", n.value, "-", FALSE))
                    ELSE outcome.exc = "KeyError"
               ELSE IF ~UserPresent(inter, n.value) THEN outcome.exc = "KeyError"
               ELSE IF inter.guild
               THEN /\ outcome.exc = "none"
                    /\ outcome.binding[ParamOf(n.name)].kind = "Member"
                    /\ outcome.binding[ParamOf(n.name)].user = n.value
               ELSE BoundTo(n, Value("User", n.value, "-", FALSE))

\* C9 happens: the id is in resolved.roles and in resolved.users, and the
\* role was bound.
C9_Witness ==
    \E n \in Nodes :
        /\ OnlyMentionable(n)
        /\ n.value \in inter.resolved.roles
        /\ n.value \in inter.resolved.users
        /\ BoundTo(n, Value("Role", n.value, "-", FALSE))

\* The map the decoder consults for node n lacks the id n references.
Miss(I, n) ==
    CASE n.type \in {6, 7, 8, 11} -> ~DataPresent(I, n)
      [] n.type = 9 -> IF I.resolved.roles # {} THEN n.value \notin I.resolved.roles
                       ELSE ~UserPresent(I, n.value)
      [] OTHER -> FALSE

\* All nodes of the received tree (it is at most three levels deep).
Below(ns) == UNION { {n.options[k] : k \in 1..Len(n.options)} : n \in ns }
AllNodes == Nodes \cup Below(Nodes) \cup Below(Below(Nodes))

\* What holds of every failed lookup: an exception reaches the caller, no
\* mapping is returned and no callback is called; in a flat list the
\* exception is the lookup's own and the option stays unbound.
LookupFailure(exc) ==
    \A n \in AllNodes :
        (inter.sent /\ Miss(inter, n))
            => /\ outcome.exc # "none"
               /\ ~outcome.returned
               /\ outcome.events = <<>>
               /\ (FlatDeclared
                     => /\ outcome.exc = exc
                        /\ ParamOf(n.name) \notin DOMAIN outcome.binding)

Refs(seq) == {seq[i] : i \in 1..Len(seq)}

\* The option whose option list holds r.
Parent(r) == CHOOSE o \in 1..Len(heap) : r \in Refs(heap[o].options)

RECURSIVE Depth(_)
\* The nesting level of an option below the top-level command.
Depth(r) == IF r \in Refs(command.options) THEN 1 ELSE 1 + Depth(Parent(r))

\* A .command(...) decoration was made in this step.
Decorated == attach' # attach \/ heap' # heap

\* C11: chained .command(...) calls from a top-level command succeed on the
\* command and on a first-level sub-command (giving command -> group ->
\* sub-command) and raise the declaration error on every attempt on a
\* second-level sub-command, which attaches nothing.
C11_TwoLevels ==
    [][Decorated =>
         IF attach'.recv # 0 /\ Depth(attach'.recv) >= 2
         THEN attach'.exc = "ApplicationCommandException"
              /\ heap' = heap /\ command' = command
         ELSE attach'.exc = "none" /\ Len(heap') = Len(heap) + 1]_vars

\* C11 happens: command -> group -> sub-command was declared and a further
\* .command(...) on the sub-command was refused.
C11_Witness ==
    /\ attach.exc = "ApplicationCommandException"
    /\ Depth(attach.recv) = 2
    /\ heap[Parent(attach.recv)].type = 2

\* The lookup `subs` of a receiver holds one entry per option of `options`,
\* each under the option's own name.
KeyedByName(options, subs) ==
    /\ Cardinality(DOMAIN subs) = Len(options)
    /\ \A r \in Refs(options) :
         heap[r].name \in DOMAIN subs /\ subs[heap[r].name] = r

\* C12: after any sequence of .command(...) attachments the receiver's
\* sub-command lookup holds exactly one entry per attached sub-command, under
\* that sub-command's name (the explicit name, else the lower-cased function
\* name), so every entry of the option list is found in it by its name.
C12_LookupByName ==
    /\ command.subs # EmptyMap => KeyedByName(command.options, command.subs)
    /\ \A o \in 1..Len(heap) :
         heap[o].subs # EmptyMap => KeyedByName(heap[o].options, heap[o].subs)

\* --------------------------------------------------------- claims on metadata

TriState(field) ==
    IF field = "absent" THEN MISSING
    ELSE IF field = "null" THEN None
    ELSE field

\* C15: construction keeps the three states of every optional field apart:
\* an absent key yields MISSING, a key present with null yields null, a key
\* present with a value yields the value.
C15_ThreeStatesKept ==
    (Identified /\ chResult.kind = "ok")
        => /\ chResult.name = TriState(chData.name)
           /\ chResult.flags = TriState(chData.flags)

\* -------------------------------------------------- claims on the requests

\* The values that are the unset marker or are made from it.
FromMissing == {MISSING, Str(MISSING)}

\* The parameter whose argument a body key carries.
ParamOfKey(m, k) == IF m = "modify_channel" /\ k = "user_limit" THEN "user_imit" ELSE k

\* C14: the body a channel router method hands to the transport holds no key
\* whose argument was left unset, and no value that is the unset marker or
\* its string form.
C14_NoUnsetInBody ==
    (rtCall.layer = "router" /\ rtCall.method \in BodyMethods)
        => \A i \in 1..Len(rtSent) :
             \A k \in DOMAIN rtSent[i].body :
                /\ rtSent[i].body[k] \notin FromMissing
                /\ rtCall.args[ParamOfKey(rtCall.method, k)] # MISSING

\* The router method an operation of a channel is to call.
RequestOf(op) ==
    CASE op = "edit" -> "modify_channel"
      [] op = "send" -> "create_message"
      [] OTHER -> RouterMethodOf(op)

\* A send with more houses than a message may carry.
Oversized == rtCall.method = "send" /\ rtCall.args["houses"] = "six"

\* C16: one call of edit sends exactly one modify_channel request and
\* returns a fresh instance of the variant; one call of delete, send (with
\* at most five houses), join, leave, add_member or remove_member sends
\* exactly one request of its kind.
C16_OneRequestPerCall ==
    (rtCall.layer = "entity" /\ ~Oversized)
        => /\ Len(rtSent) = 1
           /\ rtSent[1].method = RequestOf(rtCall.method)
           /\ rtResult.kind = "return"
           /\ rtCall.method = "edit" => rtResult.value = rtCall.on

\* The option the payload marks focused.
Focused(I) == I.options[CHOOSE i \in 1..Len(I.options) : I.options[i].focused]

\* An autocomplete request naming the command has been dispatched.
Dispatched == acInter.type = 4 /\ acInter.name = "main"

\* C17: on an autocomplete request naming the command, the completer invoked
\* is the one of the option marked focused, found by its name, and the string
\* it receives is that option's partial value, wherever the focused option
\* stands in the received list.
C17_FocusedCompleter ==
    Dispatched =>
        /\ acOut.invoked = Focused(acInter).name
        /\ acOut.string = Focused(acInter).value

\* The most choices the platform accepts in one autocomplete response.
PlatformMaxChoices == 25

DeclaredAs(name) ==
    LET i == CHOOSE j \in 1..Len(acCmd.options) : acCmd.options[j].name = name
    IN  acCmd.signature[i].option

\* The name and the comparison value of a registered choice.
NameAndValue(a) ==
    [name |-> a.name, value |-> IF a.given THEN a.value ELSE a.name]

\* The registered choices whose value contains the input, case ignored, in
\* registration order.
Matching(registered, string) ==
    SelectSeq([i \in 1..Len(registered) |-> NameAndValue(registered[i])],
              LAMBDA c : Contains(LowerStr(c.value), LowerStr(string)))

\* The default completer ran on an option declared with autocomplete.
CompletedDefault ==
    /\ acOut.invoked # "-"
    /\ DeclaredAs(acOut.invoked).autocomplete = "True"

\* C19: for an autocomplete option, the default completer returns exactly the
\* registered choices (with or without an explicit value) whose lower-cased
\* value contains the lower-cased input, each with its name and its value, in
\* registration order.
C19_DefaultCompleter ==
    CompletedDefault =>
        LET want == Matching(DeclaredAs(acOut.invoked).choices, acOut.string)
        IN  /\ acOut.exc = "none"
            /\ Len(acOut.response) = Len(want)
            /\ \A i \in 1..Len(want) :
                 /\ acOut.response[i].name = want[i].name
                 /\ acOut.response[i].value = want[i].value

\* The wire type the declaration of one parameter calls for: the explicit
\* numeric type when one was given, the table's code for the value type
\* otherwise.
WireType(p) ==
    IF p.option.type.kind = "int" THEN p.option.type.code ELSE OPTION_BIND(p.pytype)

\* C20: after declaration each option's type, on the option and in the
\* serialized payload, is the table's code for the parameter's value type,
\* unless the Option was given an explicit numeric type, which it then keeps.
C20_WireType ==
    acCmd.exc = "none" =>
        \A i \in 1..Len(acCmd.options) :
            /\ acCmd.options[i].type = WireType(acCmd.signature[i])
            /\ acCmd.payload[i].type = WireType(acCmd.signature[i])

\* ------------------------------------------- claims on user and message commands

\* The parameters of a signature besides the interaction-context one.
BesidesInteraction(sig) == SelectSeq(sig, LAMBDA a : a # "Interaction")

\* C21: declaring a user command succeeds if and only if, besides the
\* interaction parameter, the callback declares exactly one parameter and it
\* is typed User, Member or their union; every other callback raises a
\* declaration error.
C21_UserCommandValidation ==
    ctxCmd.type = 2 =>
        (ctxCmd.exc = "none" <=>
            /\ Len(BesidesInteraction(ctxCmd.signature)) = 1
            /\ BesidesInteraction(ctxCmd.signature)[1] \in {"User", "Member", "Union"})

\* C26: every user or message command whose callback was accepted at
\* declaration can be invoked: _invoke passes as many positional arguments
\* as the callback has parameters.
C26_AcceptedIsCallable ==
    ctxOut.called => ctxOut.exc = "none"

\* ----------------------------------------------- claims on failing HTTP calls

\* A failed call ends its instantiate(): the error reached the caller, and
\* that instantiate() issued nothing after it, the failed call included.
FailureEnds ==
    \A i \in 1..Len(log) :
        ~log[i].ok
            => /\ pc[log[i].cmd] = "failed" \/ callNo[log[i].cmd] # log[i].call
               /\ \A j \in (i + 1)..Len(log) : log[j].call # log[i].call

\* The step in which an HTTP call of c's instantiate() fails.
Fails(c) == pc[c] # "failed" /\ pc'[c] = "failed"

\* The id the command has when the call that fails is issued: the guild loop
\* assigns the remote command's id just before its edit call (line 580).
IdAtIssue(c) ==
    IF guild_id[c] # 0 /\ log'[Len(log')].op = "edit"
    THEN log'[Len(log')].id
    ELSE cmdId[c]

\* C22: a failing HTTP call of instantiate() propagates to the caller, is not
\* retried and is the last call of that instantiate(); the registration flag
\* and the id keep the values they had when the call was issued.
C22_FailurePropagates ==
    /\ []FailureEnds
    /\ [][\A c \in Cmds :
            Fails(c) => /\ Len(log') = Len(log) + 1
                        /\ ~log'[Len(log')].ok
                        /\ created'[c] = created[c]
                        /\ cmdId'[c] = IdAtIssue(c)]_vars

\* C22 happens: an edit call failed after an earlier call of the same
\* instantiate() had succeeded, and the command was called again later.
C22_Witness ==
    \E i \in 2..Len(log) :
        /\ ~log[i].ok /\ log[i].op = "edit"
        /\ log[i - 1].call = log[i].call
        /\ callNo[log[i].cmd] # log[i].call

\* ------------------------------------------------ claims on dispatch order

\* The received tree selects an attached sub-command at the top level, where
\* dispatch is not inside a group.
SelectsSubCommand ==
    /\ inter.sent
    /\ Len(inter.options) = 1
    /\ inter.options[1].type = 1
    /\ inter.options[1].name \in DOMAIN command.subs
    /\ inter.options[1].name \in DOMAIN command.options_dict

\* C23: when the tree selects a sub-command outside a group, the parent
\* callback is invoked before the decoder descends into the sub-command's
\* children: it is the first callback called, whatever happens while the
\* children are bound, and the sub-command's callback comes after it.
C23_ParentBeforeChildren ==
    SelectsSubCommand =>
        /\ Len(outcome.events) >= 1
        /\ outcome.events[1].cb = command.callback
        /\ \A i \in 1..Len(outcome.events) :
             outcome.events[i].cb = heap[command.subs[inter.options[1].name]].callback
                 => i > 1

\* ------------------------------------------- claims on concurrent invocations

\* C24: however two invocations of the command interleave, each callback is
\* called with exactly what its own interaction yields when decoded alone,
\* and no step of an invocation changes the declared options, the lookup
\* maps or the registration flag.
C24_InvocationsIsolated ==
    /\ [](\A k \in Invocations :
            pAcc[k].returned =>
                /\ pAcc[k].exc = invoke(pInter[k]).exc
                /\ pAcc[k].events = invoke(pInter[k]).events)
    /\ [][command' = command /\ heap' = heap /\ created' = created]_vars

\* C24 happens: both invocations are past their loops at once, one of them
\* having bound a user and a text that the other did not.
C24_Witness ==
    /\ \A k \in Invocations : pAcc[k].returned /\ pAcc[k].exc = "none"
    /\ Len(pInter[1].options) = 2
    /\ pAcc[1].events # pAcc[2].events

\* ------------------------------------------------- claims on the payload sent

\* The serialization of the option tree as declared now.
CurrentPayload == [i \in 1..Len(command.options) |-> to_dict(heap, command.options[i])]

\* C25: the options a create or edit call of instantiate() sends equal the
\* serialization of the option tree declared at that time; a sub-command
\* that has since become a group is sent with wire type 2 and with its
\* nested sub-command, whatever the order of the attachments.
C25_PayloadIsCurrent ==
    sentOptions.sent => sentOptions.options = CurrentPayload

\* ------------------------------------------- claims on concurrent instantiate

\* The delete calls issued for remote commands no declaration names.
StaleDeletes ==
    {i \in 1..Len(log) : log[i].op = "delete" /\ log[i].name \notin ApplicationCommandNames}

\* C27: however the instantiate() calls of the two commands interleave, and
\* with no transport error, each stale remote command gets at most one delete
\* call, and none once it has been deleted.
C27_OneDeletePerStale ==
    faults = 0 =>
        \A i \in StaleDeletes :
            /\ log[i].known
            /\ \A j \in StaleDeletes : log[j].id = log[i].id => j = i

\* ------------------------------------------------- claims on the response

\* The events of a kind so far.
Events(ev) == {i \in 1..Len(rsLog) : rsLog[i].ev = ev}

\* C28: once a send has completed successfully, every send begun later
\* raises InteractionException and issues no create_interaction_response
\* request; a send whose request fails leaves responded as it was.
C28_SendOnce ==
    /\ [](\A i \in Events("ok") : \A j \in (i + 1)..Len(rsLog) : rsLog[j].ev # "request")
    /\ [][\A k \in Tasks :
            /\ (SendBegin(k) /\ Events("ok") # {}) => rsPc'[k] = "raised"
            /\ (rsPc[k] = "awaiting" /\ rsPc'[k] = "failed") => rsResponded' = rsResponded]_vars

\* C28 happens: a send failed, the next one succeeded, and a third send
\* was refused.
C28_Witness ==
    /\ Len(rsLog) = 5
    /\ rsLog[2].ev = "fail" /\ rsLog[4].ev = "ok" /\ rsLog[5].ev = "raise"

\* C29: two sends on the same response running at once issue at most one
\* create_interaction_response request between them: without a failed
\* request there is never a second one.
C29_OneRequest ==
    Events("fail") = {} => Cardinality(Events("request")) <= 1

\* --------------------------------------------------- claims on sent houses

\* C30: the houses of a send are registered with the state only when the
\* send returns a Message: a send that raised, for more than five houses or
\* for a failed create_message, has none of its houses registered.
C30_HousesOnlyOnSuccess ==
    \A c \in 1..Len(hsCalls) :
        hsCalls[c].result \in {"ComponentException", "HTTPException"}
            => \A h \in hsRegistered : h[1] # c

====
